---- MODULE Spec2Model ----
(***************************************************************************)
(* A model of the evaluation core of the Quint compiler                    *)
(* (quint/src/runtime/impl/compilerImpl.ts): the register banks of the     *)
(* CompilerVisitor, the computables the visitor builds for the action and  *)
(* Boolean combinators, and the evaluation of those computables.           *)
(*                                                                         *)
(* A compiled computable is modelled by the expression it was compiled     *)
(* from; Eval(e, p, st) is what calling eval() on it does to the machine   *)
(* st: the two register banks, the log of runtime errors and the result.   *)
(***************************************************************************)
EXTENDS Integers, Sequences, FiniteSets, TLC

VARIABLES vars, nextVars, runtimeErrors, pc, run, held, lastTrace, sim,
          context, compStack, compileErrors, visit, resolver, state

\* the state of the example module that is run (none by default)
NoState == [module |-> ""]

\* the state of the visitor at compile time
compiler == <<context, compStack, compileErrors, visit>>

allVars ==
  <<vars, nextVars, runtimeErrors, pc, run, held, lastTrace, sim, compiler,
    resolver, state>>

(***************************************************************************)
(* Bounds of the model.                                                    *)
(***************************************************************************)
\* the largest number of operands of a combinator that the model composes
MaxArgs == 2
\* the largest nruns and the largest nsteps that _test is called with
MaxRuns == 2
MaxSteps == 2
\* the largest number of nodes of a module that the visitor is taken through
MaxNodes == 4
\* the largest number of actions of a chain of an example module
MaxChain == 4
\* the number of bits of a Solidity uint in the example modules
UIntBits == 8
\* the largest number of steps of a run of Coin, init included
MaxCoinSteps == 3
\* the largest of the small amounts of a step of Coin
MaxAmount == 2
\* the maximal round number of TendermintAcc_004
MaxRound == 1
\* the length of the lists and the number of elements of the sets
MaxLen == 2
\* the number of references that a walk of the name resolver visits
MaxRefs == 2
\* Math.random() is drawn from { 0/RandRes, ..., (RandRes-1)/RandRes }
RandRes == 2

(***************************************************************************)
(* Runtime values and Maybe.                                               *)
(***************************************************************************)
none == <<>>
just(v) == <<v>>
isNone(mb) == mb = <<>>
isJust(mb) == mb # <<>>
mkBool(b) == [k |-> "bool", n |-> IF b THEN 1 ELSE 0]
mkInt(i) == [k |-> "int", n |-> i]
\* a list and a set hold their elements in the order of enumeration
mkList(elems) == [k |-> "list", n |-> elems]
RECURSIVE distinct(_, _)
distinct(elems, seen) ==
  IF elems = <<>> THEN <<>>
  ELSE IF Head(elems) \in seen THEN distinct(Tail(elems), seen)
       ELSE <<Head(elems)>> \o distinct(Tail(elems), seen \cup {Head(elems)})
mkSet(elems) == [k |-> "set", n |-> distinct(elems, {})]
toList(v) == v.n
toBool(v) == v.n = 1
toInt(v) == v.n
\* Maybe.or: this value if it is defined, the other one otherwise
orElse(mb, other) == IF isNone(mb) THEN other ELSE mb
\* merge of @sweet-monads/maybe: defined iff all the values are defined
allJust(mbs) == \A i \in DOMAIN mbs : isJust(mbs[i])

\* BigInt division truncates towards zero; the remainder takes the sign
\* of the dividend
abs(i) == IF i < 0 THEN -i ELSE i
bigDiv(p, q) == IF (p < 0) = (q < 0) THEN abs(p) \div abs(q) ELSE -(abs(p) \div abs(q))
bigMod(p, q) == p - q * bigDiv(p, q)

(***************************************************************************)
(* The declared state variables: `var n: int` and `var m: int`.  The       *)
(* compiler keeps two parallel arrays of registers, vars and nextVars.     *)
(***************************************************************************)
VarName == <<"n", "m">>
VarIdx == 1..Len(VarName)
idxOf(x) == CHOOSE i \in VarIdx : VarName[i] = x
\* the id of the declaration of the i-th variable (expression ids are paths
\* of child positions, which start from 1)
declId(i) == <<0, i>>
RECURSIVE nones(_)
nones(k) == IF k = 0 THEN <<>> ELSE Append(nones(k - 1), none)
Unset == nones(Len(VarName))

(***************************************************************************)
(* Expressions (the IR that is compiled).                                  *)
(***************************************************************************)
BoolE(b) == [op |-> "bool", x |-> "", v |-> IF b THEN 1 ELSE 0, args |-> <<>>]
IntE(i) == [op |-> "int", x |-> "", v |-> i, args |-> <<>>]
NameE(x) == [op |-> "name", x |-> x, v |-> 0, args |-> <<>>]
App(op, args) == [op |-> op, x |-> "", v |-> 0, args |-> args]
Assign(x, rhs) == App("assign", <<NameE(x), rhs>>)

(***************************************************************************)
(* The machine that an evaluation works on, and the observations that      *)
(* the model records about an evaluation.                                  *)
(***************************************************************************)
Machine(vs, nvs, errs, seed) ==
  [vars |-> vs, nextVars |-> nvs, runtimeErrors |-> errs,
   seed |-> seed, drawn |-> 0, res |-> none, log |-> <<>>, registers |-> <<>>]

\* record an observation: a computable is entered or left, or the
\* registers are shifted by the chain at p
note(st, ty, p) ==
  [st EXCEPT !.log = Append(@, [ty |-> ty, p |-> p, res |-> st.res,
                                vars |-> st.vars, nextVars |-> st.nextVars])]

addRuntimeError(st, id, msg) ==
  [st EXCEPT !.runtimeErrors = Append(@, [refs |-> id, explanation |-> msg])]

withRes(st, mb) == [st EXCEPT !.res = mb]

(***************************************************************************)
(* Registers: snapshots, recovery and the shift.                           *)
(***************************************************************************)
\* Array.map over the registers gives a new array of their values
snapshotVars(st) == SubSeq(st.vars, 1, Len(st.vars))

snapshotNextVars(st) == SubSeq(st.nextVars, 1, Len(st.nextVars))

\* a recover that leaves a register alone where the snapshot holds no value
RECURSIVE overlay(_, _)
overlay(regs, values) ==
  IF regs = <<>> THEN <<>>
  ELSE <<IF isNone(Head(values)) THEN Head(regs) ELSE Head(values)>>
       \o overlay(Tail(regs), Tail(values))

recoverVars_SetOnly(st, values) == [st EXCEPT !.vars = overlay(st.vars, values)]

recoverVars(st, values) ==
  [st EXCEPT !.vars = SubSeq(values, 1, Len(st.vars))]

recoverNextVars_Skip(st, values) == st

recoverNextVars(st, values) ==
  [st EXCEPT !.nextVars = SubSeq(values, 1, Len(st.nextVars))]

\* a shift that leaves the next-state registers as they are
shiftVars_NoClear(st) == recoverVars(st, snapshotNextVars(st))

\* a shift that only clears the next-state registers
shiftVars_NoCopy(st) == [st EXCEPT !.nextVars = nones(Len(st.nextVars))]

\* a seeded fault: a shift that keeps the current value of a variable
\* that was not assigned
shiftVars_Keep(st) ==
  [st EXCEPT !.vars = overlay(st.vars, st.nextVars),
             !.nextVars = nones(Len(st.nextVars))]

shiftVars(st) ==
  LET shifted == recoverVars(st, snapshotNextVars(st))
  IN  [shifted EXCEPT !.nextVars = nones(Len(shifted.nextVars))]

\* a seeded fault: the error of an unset variable is attributed to the id 0
evalVar_Zero(st, i) ==
  IF isNone(st.vars[i])
  THEN withRes(addRuntimeError(st, <<0>>, "Variable is not set"), none)
  ELSE withRes(st, st.vars[i])

\* Register.eval of a `nextvar` register, with the callback of exitVar
evalNextVar(st, i) ==
  IF isNone(st.nextVars[i])
  THEN withRes(addRuntimeError(st, declId(i), "next is not set"), none)
  ELSE withRes(st, st.nextVars[i])

\* Register.eval of the shadow register _lastTrace, which holds mb, with
\* the callback of the constructor
evalShadow(st, mb) ==
  IF isNone(mb)
  THEN withRes(addRuntimeError(st, <<0>>, "_lastTrace is not set"), none)
  ELSE withRes(st, mb)

\* Register.eval of a `var` register: the value, or the onUndefined
\* callback of exitVar and no value
evalVar(st, i) ==
  IF isNone(st.vars[i])
  THEN withRes(addRuntimeError(st, declId(i), "Variable is not set"), none)
  ELSE withRes(st, st.vars[i])

\* Math.random(): the next draw of the seed, as a numerator over RandRes
random(st) == st.seed[(st.drawn % Len(st.seed)) + 1]

(***************************************************************************)
(* The functions that exitApp hands to applyFun.  Each returns the machine *)
(* with the result in res.  A JavaScript exception thrown by the function  *)
(* is caught by applyFun, which records it and yields no value.            *)
(***************************************************************************)
\* an assignment that writes the current-state register
assignFun_Cur(st, i, value) ==
  withRes([st EXCEPT !.vars[i] = just(value)], just(mkBool(TRUE)))

assignFun(st, i, value) ==
  withRes([st EXCEPT !.nextVars[i] = just(value)], just(mkBool(TRUE)))

\* a seeded fault: the error of a built-in is not recorded
failWith_Silent(st, id, msg) == withRes(st, none)

\* a built-in records a runtime error and yields no value
failWith(st, id, msg) == withRes(addRuntimeError(st, id, msg), none)

\* p ** q for q >= 0
RECURSIVE pow(_, _)
pow(p, q) == IF q = 0 THEN 1 ELSE p * pow(p, q - 1)

\* a seeded fault: the last index is out of bounds
getListElem_Short(st, sourceId, list, idx) ==
  IF idx >= 0 /\ idx < Len(list) - 1
  THEN withRes(st, just(list[idx + 1]))
  ELSE failWith(st, sourceId, "Out of bounds, nth")

getListElem(st, sourceId, list, idx) ==
  IF idx >= 0 /\ idx < Len(list)
  THEN withRes(st, just(list[idx + 1]))
  ELSE failWith(st, sourceId, "Out of bounds, nth")

updateList(st, sourceId, list, idx, value) ==
  IF idx >= 0 /\ idx < Len(list)
  THEN withRes(st, just(mkList([list EXCEPT ![idx + 1] = value])))
  ELSE failWith(st, sourceId, "Out of bounds, replaceAt")

\* List.slice(start, end) of Immutable.js for 0 <= start <= end <= size
sliceList(st, sourceId, list, start, end) ==
  withRes(st, just(mkList(SubSeq(list, start + 1, end))))

builtinFun(op, vs, p, st) ==
  CASE op = "eq" -> withRes(st, just(mkBool(vs[1] = vs[2])))
    [] op = "neq" -> withRes(st, just(mkBool(vs[1] # vs[2])))
    [] op = "not" -> withRes(st, just(mkBool(~toBool(vs[1]))))
    [] op = "iadd" -> withRes(st, just(mkInt(toInt(vs[1]) + toInt(vs[2]))))
    [] op = "isub" -> withRes(st, just(mkInt(toInt(vs[1]) - toInt(vs[2]))))
    [] op = "imul" -> withRes(st, just(mkInt(toInt(vs[1]) * toInt(vs[2]))))
    [] op = "idiv" ->
         IF toInt(vs[2]) # 0
         THEN withRes(st, just(mkInt(bigDiv(toInt(vs[1]), toInt(vs[2])))))
         ELSE failWith(st, p, "Division by zero")
    [] op = "imod" ->
         IF toInt(vs[2]) # 0
         THEN withRes(st, just(mkInt(bigMod(toInt(vs[1]), toInt(vs[2])))))
         \* BigInt % 0n throws a RangeError, which applyFun catches
         ELSE failWith(st, p, "Division by zero")
    [] op = "igt" -> withRes(st, just(mkBool(toInt(vs[1]) > toInt(vs[2]))))
    [] op = "ilt" -> withRes(st, just(mkBool(toInt(vs[1]) < toInt(vs[2]))))
    [] op = "igte" -> withRes(st, just(mkBool(toInt(vs[1]) >= toInt(vs[2]))))
    [] op = "ilte" -> withRes(st, just(mkBool(toInt(vs[1]) <= toInt(vs[2]))))
    [] op = "ipow" ->
         IF toInt(vs[2]) = 0 /\ toInt(vs[1]) = 0
         THEN failWith(st, p, "0^0 is undefined")
         ELSE IF toInt(vs[2]) < 0
              THEN failWith(st, p, "i^j is undefined for j < 0")
              ELSE withRes(st, just(mkInt(pow(toInt(vs[1]), toInt(vs[2])))))
    [] op = "List" -> withRes(st, just(mkList(vs)))
    [] op = "Set" -> withRes(st, just(mkSet(vs)))
    [] op = "nth" -> getListElem(st, p, toList(vs[1]), toInt(vs[2]))
    [] op = "replaceAt" ->
         updateList(st, p, toList(vs[1]), toInt(vs[2]), vs[3])
    [] op = "slice" ->
         LET l == toList(vs[1])
             s == toInt(vs[2])
             e == toInt(vs[3])
         IN  IF s >= 0 /\ s < Len(l) /\ e <= Len(l) /\ e >= s
             THEN sliceList(st, p, l, s, e)
             ELSE failWith(st, p, "slice applied to a list")

(***************************************************************************)
(* Evaluation of a computable.                                             *)
(***************************************************************************)
RECURSIVE Eval(_, _, _)
RECURSIVE evalArgs(_, _, _, _, _)
RECURSIVE chainLoop(_, _, _, _, _, _)
RECURSIVE boolLoop(_, _, _, _, _)
RECURSIVE anyLoop(_, _, _, _, _, _)

\* args.map(a => a.eval()): every argument is evaluated, from left to
\* right; the values are collected in vals
evalArgs(args, i, p, st, vals) ==
  IF i > Len(args) THEN [st |-> st, vals |-> vals]
  ELSE LET s1 == Eval(args[i], Append(p, i), st)
       IN  evalArgs(args, i + 1, p, s1, Append(vals, s1.res))

\* vs.map(v => v as RuntimeValue): the values of the defined results
RECURSIVE unwrap(_)
unwrap(values) ==
  IF values = <<>> THEN <<>> ELSE <<Head(values)[1]>> \o unwrap(Tail(values))

\* a seeded fault: an assignment whose right-hand side fails unsets the
\* next-state register
applyFun_Unset(e, first, p, st) ==
  LET r == evalArgs(e.args, first, p, st, <<>>)
      values == r.vals
  IN  IF ~allJust(values)
      THEN IF e.op = "assign"
           THEN withRes([r.st EXCEPT !.nextVars[idxOf(e.args[1].x)] = none], none)
           ELSE withRes(r.st, none)
      ELSE IF e.op = "assign"
           THEN assignFun(r.st, idxOf(e.args[1].x), values[1][1])
           ELSE builtinFun(e.op, unwrap(values), p, r.st)

\* the computable that applyFun builds over the operands first..Len(args)
applyFun(e, first, p, st) ==
  LET r == evalArgs(e.args, first, p, st, <<>>)
      values == r.vals
  IN  IF ~allJust(values) THEN withRes(r.st, none)
      ELSE IF e.op = "assign"
           THEN assignFun(r.st, idxOf(e.args[1].x), values[1][1])
           ELSE builtinFun(e.op, unwrap(values), p, r.st)

\* a loop that evaluates every operand
RECURSIVE boolLoop_NoStop(_, _, _, _, _)
boolLoop_NoStop(args, i, p, stopOn, st) ==
  IF i > Len(args) THEN st
  ELSE LET s1 == Eval(args[i], Append(p, i), st)
           result == orElse(s1.res, just(mkBool(FALSE)))
           stopped == i > 1 /\ toBool(st.res[1]) = stopOn
       IN  boolLoop_NoStop(args, i + 1, p, stopOn,
                           withRes(s1, IF stopped THEN st.res ELSE result))

\* a loop that hands on the failure of an operand
RECURSIVE boolLoop_Propagate(_, _, _, _, _)
boolLoop_Propagate(args, i, p, stopOn, st) ==
  IF i > Len(args) THEN st
  ELSE LET s1 == Eval(args[i], Append(p, i), st)
       IN  IF isNone(s1.res) \/ toBool(s1.res[1]) = stopOn THEN s1
           ELSE boolLoop_Propagate(args, i + 1, p, stopOn, s1)

\* the loop of translateAnd (stopOn = FALSE) and translateOr (stopOn = TRUE)
boolLoop(args, i, p, stopOn, st) ==
  IF i > Len(args) THEN st
  ELSE LET s1 == Eval(args[i], Append(p, i), st)
           result == orElse(s1.res, just(mkBool(FALSE)))
           boolResult == toBool(result[1])
           s2 == withRes(s1, result)
       IN  IF boolResult = stopOn THEN s2
           ELSE boolLoop(args, i + 1, p, stopOn, s2)

translateAnd(e, p, st) ==
  boolLoop(e.args, 1, p, FALSE, withRes(st, just(mkBool(TRUE))))

translateOr(e, p, st) ==
  boolLoop(e.args, 1, p, TRUE, withRes(st, just(mkBool(FALSE))))

\* the loop of chainAllOrThen
chainLoop(actions, kind, i, p, savedValues, st) ==
  IF i > Len(actions) THEN st
  ELSE LET nactionsLeft == Len(actions) - i
           s1 == Eval(actions[i], Append(p, i), st)
       IN  IF isNone(s1.res) \/ ~toBool(s1.res[1])
           THEN recoverNextVars(s1, savedValues)
           ELSE IF kind = "then" /\ nactionsLeft > 0
                THEN chainLoop(actions, kind, i + 1, p, savedValues,
                               note(shiftVars(s1), "shift", p))
                ELSE chainLoop(actions, kind, i + 1, p, savedValues, s1)

\* a chain that coerces the result of a failing action to false
chainAllOrThen_Coerce(actions, kind, p, st) ==
  LET savedValues == snapshotNextVars(st)
      s1 == chainLoop(actions, kind, 1, p, savedValues, withRes(st, just(mkBool(TRUE))))
  IN  withRes(s1, orElse(s1.res, just(mkBool(FALSE))))

\* a seeded fault: a chain that failed puts back the current-state
\* registers as well
chainAllOrThen_Rollback(actions, kind, p, st) ==
  LET savedValues == snapshotNextVars(st)
      s1 == chainLoop(actions, kind, 1, p, savedValues, withRes(st, just(mkBool(TRUE))))
  IN  IF isJust(s1.res) /\ toBool(s1.res[1]) THEN s1
      ELSE recoverVars(s1, snapshotVars(st))

chainAllOrThen(actions, kind, p, st) ==
  LET savedValues == snapshotNextVars(st)
  IN  chainLoop(actions, kind, 1, p, savedValues, withRes(st, just(mkBool(TRUE))))

translateAllOrThen(e, p, st) ==
  chainAllOrThen(e.args, IF e.op = "then" THEN "then" ELSE "all", p, st)

\* a commit that leaves the registers as the last action left them
commitSuccessor_Last(st, valuesBefore, successors) ==
  withRes(st, just(mkBool(Len(successors) # 0)))

\* the end of lazyCompute in translateOrAction: commit one of the successors
commitSuccessor(st, valuesBefore, successors) ==
  LET ncandidates == Len(successors)
  IN  IF ncandidates = 0
      THEN withRes(recoverNextVars(st, valuesBefore), just(mkBool(FALSE)))
      ELSE LET choice == (random(st) * ncandidates) \div RandRes
               s1 == [st EXCEPT !.drawn = @ + 1]
           IN  withRes(recoverNextVars(s1, successors[choice + 1]),
                       just(mkBool(TRUE)))

\* a loop that does not start every action from the registers before
RECURSIVE anyLoop_NoRecover(_, _, _, _, _, _)
anyLoop_NoRecover(args, i, p, valuesBefore, successors, st) ==
  IF i > Len(args) THEN commitSuccessor(st, valuesBefore, successors)
  ELSE LET s1 == Eval(args[i], Append(p, i), st)
           result == orElse(s1.res, just(mkBool(FALSE)))
           boolResult == toBool(result[1])
       IN  anyLoop_NoRecover(args, i + 1, p, valuesBefore,
                   IF boolResult THEN Append(successors, snapshotNextVars(s1))
                                 ELSE successors,
                   s1)

\* the loop of translateOrAction
anyLoop(args, i, p, valuesBefore, successors, st) ==
  IF i > Len(args) THEN commitSuccessor(st, valuesBefore, successors)
  ELSE LET s0 == recoverNextVars(st, valuesBefore)
           s1 == Eval(args[i], Append(p, i), s0)
           result == orElse(s1.res, just(mkBool(FALSE)))
           boolResult == toBool(result[1])
       IN  anyLoop(args, i + 1, p, valuesBefore,
                   IF boolResult THEN Append(successors, snapshotNextVars(s1))
                                 ELSE successors,
                   s1)

translateOrAction(e, p, st) ==
  anyLoop(e.args, 1, p, snapshotNextVars(st), <<>>, st)

(***************************************************************************)
(* Lambdas.  A lambda is the application "lambda" of its parameters to its *)
(* body; a parameter has a register of kind arg, which the machine keeps   *)
(* under the name of the parameter.                                        *)
(***************************************************************************)
Lambda(params, body) == App("lambda", Append(params, body))
ParamE(x) == [op |-> "param", x |-> x, v |-> 0, args |-> <<>>]
paramsOf(lam) == SubSeq(lam.args, 1, Len(lam.args) - 1)
bodyOf(lam) == lam.args[Len(lam.args)]

RECURSIVE setRegisterFrom(_, _, _, _)
setRegisterFrom(registers, name, mb, i) ==
  IF i > Len(registers) THEN Append(registers, [name |-> name, value |-> mb])
  ELSE IF registers[i].name = name
       THEN [registers EXCEPT ![i] = [name |-> name, value |-> mb]]
       ELSE setRegisterFrom(registers, name, mb, i + 1)
\* register.registerValue = mb
setRegister(st, name, mb) ==
  [st EXCEPT !.registers = setRegisterFrom(@, name, mb, 1)]

\* Register.eval of an arg register
evalParam(st, name) ==
  IF \E i \in 1..Len(st.registers) : st.registers[i].name = name
  THEN withRes(st, st.registers[
                     CHOOSE i \in 1..Len(st.registers) :
                       st.registers[i].name = name].value)
  ELSE withRes(st, none)

\* callable.eval(): the body of the lambda is evaluated
evalCallable(lam, p, st) == Eval(bodyOf(lam), Append(p, Len(lam.args)), st)

\* a seeded fault: both arms are evaluated before the condition is looked at
translateIfThenElse_Eager(e, p, st) ==
  LET s1 == Eval(e.args[1], Append(p, 1), st)
      s2 == Eval(e.args[2], Append(p, 2), s1)
      s3 == Eval(e.args[3], Append(p, 3), s2)
  IN  IF isNone(s1.res) THEN withRes(s3, none)
      ELSE IF s1.res[1] = mkBool(TRUE) THEN withRes(s3, s2.res) ELSE s3

translateIfThenElse(e, p, st) ==
  LET s1 == Eval(e.args[1], Append(p, 1), st)
  IN  IF isNone(s1.res) THEN withRes(s1, none)
      ELSE IF s1.res[1] = mkBool(TRUE)
           THEN Eval(e.args[2], Append(p, 2), s1)
           ELSE Eval(e.args[3], Append(p, 3), s1)

\* a seeded fault: one copy too many
RECURSIVE copies_OneMore(_, _)
copies_OneMore(action, n) ==
  IF n = 0 THEN <<action>> ELSE Append(copies_OneMore(action, n - 1), action)

\* new Array(n).fill(action), for n >= 0
RECURSIVE copies(_, _)
copies(action, n) == IF n = 0 THEN <<>> ELSE Append(copies(action, n - 1), action)

\* A.repeated(n): the number of iterations is evaluated at position 0 and
\* the copies of A at the positions 1..n.  new Array(n) throws a RangeError
\* for n < 0, which nothing catches: the evaluation is left by a throw.
translateRepeated(e, p, st) ==
  LET s1 == Eval(e.args[2], Append(p, 0), st)
  IN  IF isNone(s1.res) THEN withRes(s1, none)
      ELSE LET n == toInt(s1.res[1])
           IN  IF n < 0 THEN note(withRes(s1, none), "throw", p)
               ELSE chainAllOrThen(copies(e.args[1], n), "then", p, s1)

\* flatMap: f is applied to every element; no value as soon as f yields none
RECURSIVE flatMap(_, _, _, _, _, _)
flatMap(elems, i, lam, p, st, results) ==
  IF i > Len(elems) THEN [st |-> st, results |-> just(results)]
  ELSE LET s1 == setRegister(st, paramsOf(lam)[1].x, just(elems[i]))
           s2 == evalCallable(lam, p, s1)
       IN  IF isNone(s2.res) THEN [st |-> s2, results |-> none]
           ELSE flatMap(elems, i + 1, lam, p, s2, Append(results, s2.res[1]))

\* exists and forall: the lambda is mapped over the set, then the results
\* are searched
mapLambdaThenReduce(e, p, st) ==
  LET s1 == Eval(e.args[1], Append(p, 1), st)
  IN  IF isNone(s1.res) THEN withRes(s1, none)
      ELSE LET r == flatMap(toList(s1.res[1]), 1, e.args[2], Append(p, 2), s1, <<>>)
           IN  IF isNone(r.results) THEN withRes(r.st, none)
               ELSE LET rs == r.results[1]
                    IN  withRes(r.st,
                          just(mkBool(
                            IF e.op = "exists"
                            THEN \E k \in 1..Len(rs) : toBool(rs[k])
                            ELSE ~\E k \in 1..Len(rs) : ~toBool(rs[k]))))

RECURSIVE reverse(_)
reverse(elems) ==
  IF elems = <<>> THEN <<>> ELSE Append(reverse(Tail(elems)), Head(elems))

\* a seeded fault: the accumulator is always the first parameter
accumIndex_First(order) == 0

\* the register of the accumulator depends on the traversal order
accumIndex(order) == IF order = "fwd" THEN 0 ELSE 1

\* flatForEach over iter, with evaluateElem of applyFold as f
RECURSIVE flatForEach(_, _, _, _, _, _)
flatForEach(iter, i, lam, order, p, st) ==
  IF i > Len(iter) THEN st
  ELSE LET params == paramsOf(lam)
           s1 == setRegister(st, params[2 - accumIndex(order)].x, just(iter[i]))
           s2 == evalCallable(lam, p, s1)
           s3 == setRegister(s2, params[accumIndex(order) + 1].x, s2.res)
       IN  IF isNone(s3.res) THEN s3
           ELSE flatForEach(iter, i + 1, lam, order, p, s3)

\* fold and foldl (fwd), foldr (rev) of iterable, init and the lambda
applyFold(e, p, st, order) ==
  LET s1 == Eval(e.args[1], Append(p, 1), st)
  IN  IF isNone(s1.res) THEN withRes(s1, none)
      ELSE LET s2 == Eval(e.args[2], Append(p, 2), s1)
           IN  IF isNone(s2.res) THEN withRes(s2, none)
               ELSE LET lam == e.args[3]
                        iterable == toList(s1.res[1])
                        s3 == setRegister(s2, paramsOf(lam)[accumIndex(order) + 1].x,
                                          s2.res)
                    IN  flatForEach(IF order = "fwd" THEN iterable
                                                     ELSE reverse(iterable),
                                    1, lam, order, Append(p, 3), s3)

evalNode(e, p, st) ==
  CASE e.op = "bool" -> withRes(st, just(mkBool(e.v = 1)))
    [] e.op = "int" -> withRes(st, just(mkInt(e.v)))
    [] e.op = "name" -> evalVar(st, idxOf(e.x))
    \* next(x) is compiled to the next-state register of x
    [] e.op = "next" -> evalNextVar(st, idxOf(e.args[1].x))
    [] e.op = "assign" -> applyFun(e, 2, p, st)
    [] e.op = "and" -> translateAnd(e, p, st)
    [] e.op = "or" -> translateOr(e, p, st)
    [] e.op \in {"actionAll", "then"} -> translateAllOrThen(e, p, st)
    [] e.op = "actionAny" -> translateOrAction(e, p, st)
    [] e.op = "param" -> evalParam(st, e.x)
    \* the computable `fail` yields no value and records nothing
    [] e.op = "fail" -> withRes(st, none)
    [] e.op = "ite" -> translateIfThenElse(e, p, st)
    [] e.op = "repeated" -> translateRepeated(e, p, st)
    [] e.op \in {"exists", "forall"} -> mapLambdaThenReduce(e, p, st)
    [] e.op \in {"fold", "foldl"} -> applyFold(e, p, st, "fwd")
    [] e.op = "foldr" -> applyFold(e, p, st, "rev")
    [] OTHER -> applyFun(e, 1, p, st)

Eval(e, p, st) ==
  note(evalNode(e, p, note(withRes(st, none), "enter", p)), "exit", p)

(***************************************************************************)
(* The expressions that the model evaluates.                               *)
(***************************************************************************)
SeqsUpTo(S, k) == UNION {[1..j -> S] : j \in 0..k}

Tt == BoolE(TRUE)
Ff == BoolE(FALSE)
\* an expression that raises a runtime error: 1 / 0 == 1
Diverge == App("eq", <<App("idiv", <<IntE(1), IntE(0)>>), IntE(1)>>)
\* n == n, which fails when n is not set
NEqN == App("eq", <<NameE("n"), NameE("n")>>)
NPositive == App("igt", <<NameE("n"), IntE(0)>>)
SetN1 == Assign("n", IntE(1))
SetN2 == Assign("n", IntE(2))
SetN5 == Assign("n", IntE(5))
SetM1 == Assign("m", IntE(1))
IncN == Assign("n", App("iadd", <<NameE("n"), IntE(1)>>))

\* the operands of and { ... } and or { ... }
BoolOperands ==
  {Tt, Ff, Diverge, NEqN, NPositive, App("or", <<Ff, Diverge>>), App("and", <<Tt, NEqN>>)}

\* the actions that the action combinators are composed of
Actions ==
  {Ff, Diverge, SetN1, IncN,
   App("and", <<SetM1, Ff>>),
   App("actionAll", <<SetN1, Ff>>),
   App("then", <<SetN5, Ff>>),
   App("then", <<SetN2, IncN>>)}

\* the right-hand sides of the assignments
Rhs ==
  {IntE(1), IntE(5), NameE("m"), App("iadd", <<NameE("n"), IntE(1)>>),
   App("idiv", <<IntE(1), IntE(0)>>)}

\* the values that the registers are set to before an evaluation
SetupVals == {3}

(***************************************************************************)
(* The counters module (examples/language-features/counters.qnt).          *)
(***************************************************************************)
NMod(k) == App("eq", <<App("imod", <<NameE("n"), IntE(k)>>), IntE(0)>>)
CountersInit == SetN1
OnEven ==
  App("actionAll", <<NMod(2), Assign("n", App("idiv", <<NameE("n"), IntE(2)>>))>>)
OnDivByThree ==
  App("actionAll", <<NMod(3), Assign("n", App("imul", <<IntE(2), NameE("n")>>))>>)
OnPositive ==
  App("actionAll", <<NPositive, Assign("n", App("iadd", <<NameE("n"), IntE(1)>>))>>)
CountersNext == App("actionAny", <<OnEven, OnDivByThree, OnPositive>>)
run2 ==
  App("then", <<App("then", <<App("then", <<App("then",
      <<CountersInit, OnPositive>>), OnPositive>>), OnDivByThree>>), OnEven>>)

\* all { n' = 5, n == n }
AssignScenario == App("actionAll", <<SetN5, NEqN>>)

\* any { all { n' = 1, false }, all { n' = 2 } }
AnyScenario ==
  App("actionAny", <<App("actionAll", <<SetN1, Ff>>), App("actionAll", <<SetN2>>)>>)

\* an actionAny inside an actionAll and inside an actionAny
NestedAnyScenario ==
  App("actionAll", <<App("actionAny", <<SetN1, SetM1>>), IncN>>)
AnyInAnyScenario ==
  App("actionAny", <<App("actionAny", <<SetN1, SetM1>>), SetN2>>)

Scenarios ==
  {run2, AssignScenario, AnyScenario, NestedAnyScenario, AnyInAnyScenario}

(***************************************************************************)
(* The seeds: one draw of Math.random() for every `any` of the expression. *)
(***************************************************************************)
RECURSIVE nAny(_)
RECURSIVE nAnySeq(_, _)
nAnySeq(args, i) ==
  IF i > Len(args) THEN 0 ELSE nAny(args[i]) + nAnySeq(args, i + 1)
nAny(e) == (IF e.op = "actionAny" THEN 1 ELSE 0) + nAnySeq(e.args, 1)

Seeds(e) == IF nAny(e) = 0 THEN {<<0>>} ELSE [1..nAny(e) -> 0..(RandRes - 1)]

(***************************************************************************)
(* The visitor at compile time: the context, in which the computables are  *)
(* registered under a kind and a name, and the stack of computables.       *)
(***************************************************************************)
\* the key of the context for a name of a kind
kindName(kind, name) == <<kind, name>>

\* computables: a register, a constant, a callable with its body
mkRegister(kind, name) ==
  [kind |-> kind, name |-> name, registers |-> <<>>, body |-> <<>>]
mkConstComputable(name) ==
  [kind |-> "const", name |-> name, registers |-> <<>>, body |-> <<>>]
mkCallable(registers, body) ==
  [kind |-> "callable", name |-> "", registers |-> registers, body |-> <<body>>]

\* Map.set, Map.delete and Map.get; get yields no or one value
contextSet(ctx, key, value) ==
  {e \in ctx : e.key # key} \cup {[key |-> key, value |-> value]}
contextDelete(ctx, key) == {e \in ctx : e.key # key}
contextGetKey(ctx, key) ==
  IF \E e \in ctx : e.key = key
  THEN <<(CHOOSE e \in ctx : e.key = key).value>>
  ELSE <<>>

\* contextGet: the value under the first of the kinds that has the name
RECURSIVE contextGetFrom(_, _, _, _)
contextGetFrom(ctx, name, kinds, i) ==
  IF i > Len(kinds) THEN <<>>
  ELSE LET value == contextGetKey(ctx, kindName(kinds[i], name))
       IN  IF value # <<>> THEN value
           ELSE contextGetFrom(ctx, name, kinds, i + 1)

contextGet(ctx, name, kinds) == contextGetFrom(ctx, name, kinds, 1)

\* an order in which a parameter hides a state variable
NameKinds_ArgFirst == <<"shadow", "val", "arg", "var", "callable">>

\* the kinds that enterName looks a name up in, in this order
NameKinds == <<"shadow", "val", "var", "arg", "callable">>

addCompileError(v, id, msg) ==
  [v EXCEPT !.compileErrors = Append(@, [explanation |-> msg, refs |-> id])]

\* the visitor after its constructor
Constructed ==
  [context |->
     {[key |-> kindName("shadow", "_lastTrace"),
       value |-> mkRegister("shadow", "_lastTrace")],
      [key |-> kindName("val", "Bool"), value |-> mkConstComputable("Bool")],
      [key |-> kindName("val", "Int"), value |-> mkConstComputable("Int")],
      [key |-> kindName("val", "Nat"), value |-> mkConstComputable("Nat")]},
   compStack |-> <<>>, compileErrors |-> <<>>, vars |-> <<>>, nextVars |-> <<>>]

exitVar(v, name) ==
  [v EXCEPT
     !.vars = Append(@, none),
     !.nextVars = Append(@, none),
     !.context = contextSet(contextSet(@, kindName("var", name),
                                       mkRegister("var", name)),
                            kindName("nextvar", name), mkRegister("nextvar", name))]

exitOpDef(v, name, id) ==
  IF v.compStack # <<>>
  THEN [v EXCEPT
          !.compStack = SubSeq(@, 1, Len(@) - 1),
          !.context = contextSet(@, kindName("callable", name),
                                 v.compStack[Len(v.compStack)])]
  ELSE addCompileError(v, id, "No expression on compStack")

enterLiteral(v) ==
  [v EXCEPT !.compStack = Append(@, mkConstComputable(""))]

enterName(v, name, id) ==
  LET comp == contextGet(v.context, name, NameKinds)
  IN  IF comp # <<>>
      THEN [v EXCEPT !.compStack = Append(@, comp[1])]
      ELSE addCompileError(v, id, "Name not found (out of order?)")

RECURSIVE enterLambdaFrom(_, _, _)
enterLambdaFrom(v, params, i) ==
  IF i > Len(params) THEN v
  ELSE enterLambdaFrom(
         [v EXCEPT !.context = contextSet(@, kindName("arg", params[i]),
                                          mkRegister("arg", params[i]))],
         params, i + 1)

enterLambda(v, params) == enterLambdaFrom(v, params, 1)

\* the loop of exitLambda over the parameters: the context without their
\* registers, the registers, and the errors
RECURSIVE exitLambdaFrom(_, _, _, _, _)
exitLambdaFrom(v, params, i, registers, id) ==
  IF i > Len(params) THEN [v |-> v, registers |-> registers]
  ELSE LET register == contextGet(v.context, params[i], <<"arg">>)
       IN  IF register # <<>>
           THEN exitLambdaFrom(
                  [v EXCEPT !.context = contextDelete(@, kindName("arg", params[i]))],
                  params, i + 1, Append(registers, register[1]), id)
           ELSE exitLambdaFrom(addCompileError(v, id, "Parameter not found"),
                               params, i + 1, registers, id)

exitLambda(v, params, id) ==
  LET r == exitLambdaFrom(v, params, 1, <<>>, id)
  IN  IF r.v.compStack # <<>>
      THEN [r.v EXCEPT
              !.compStack = Append(SubSeq(@, 1, Len(@) - 1),
                                   mkCallable(r.registers, @[Len(@)]))]
      ELSE addCompileError(r.v, id, "Compilation of lambda failed")

\* the computable that fails
fail == [kind |-> "fail", name |-> "", registers |-> <<>>, body |-> <<>>]

\* applyFun at compile time: the operands are taken off the stack and the
\* computable over them is pushed
spliceAndPush(v, id, nargs, opcode) ==
  IF Len(v.compStack) < nargs
  THEN addCompileError(v, id, "Not enough arguments")
  ELSE [v EXCEPT
          !.compStack =
             Append(SubSeq(@, 1, Len(@) - nargs),
                    [kind |-> "app", name |-> opcode, registers |-> <<>>,
                     body |-> SubSeq(@, Len(@) - nargs + 1, Len(@))])]

\* only a callable has registers
applyUserDefined(v, app) ==
  LET callable == contextGet(v.context, app.opcode, <<"callable", "arg">>)
  IN  IF callable = <<>> \/ callable[1].kind # "callable"
      THEN [addCompileError(v, app.id, "Called unknown operator")
              EXCEPT !.compStack = Append(@, fail)]
      ELSE LET nactual == Len(v.compStack)
               nexpected == Len(callable[1].registers)
           IN  IF nactual < nexpected
               THEN addCompileError(v, app.id, "Expected arguments")
               ELSE spliceAndPush(v, app.id, nexpected, app.opcode)

\* the visitor after the declarations var n and var m
Compiled == exitVar(exitVar(Constructed, VarName[1]), VarName[2])

\* what is known of the visit: the number of nodes visited, the parameters
\* of the lambdas that were entered and not left, and the last node, with
\* the stack and the number of compile errors before it and, when it is
\* the exit of a lambda, the parameters of the lambda
NoVisit ==
  [n |-> 0, open |-> <<>>,
   last |-> [op |-> "", name |-> "", before |-> <<>>, nargs |-> 0,
             errors |-> 0, closed |-> <<>>]]

\* the visitor after def f(p, q) = p
RECURSIVE literals(_, _)
literals(v, k) == IF k = 0 THEN v ELSE literals(enterLiteral(v), k - 1)
WithOperator ==
  exitOpDef(
    exitLambda(enterName(enterLambda(Constructed, <<"p", "q">>), "p", <<0, 1>>),
               <<"p", "q">>, <<0, 2>>),
    "f", <<0, 3>>)

(***************************************************************************)
(* Name resolution (tntc/src/nameResolver.ts).  A value definition is a    *)
(* record [identifier, scope], where scope is <<>> when the definition is  *)
(* unscoped and <<id>> when it is scoped to the node id; a type definition *)
(* is a record [identifier].  The tables of a module are a record          *)
(* [valueDefinitions, typeDefinitions] of two sequences.  A scope tree is  *)
(* a record [value, children].  The visitor is a record r with the fields  *)
(* of NameResolverVisitor: tables, scopeTree, results, defName and         *)
(* moduleStack.                                                            *)
(***************************************************************************)
Unscoped == <<>>
ScopedTo(id) == <<id>>

\* !definition.scope: undefined is falsy, and so is the BigInt 0n
falsy(scope) == scope = Unscoped \/ scope = ScopedTo(0)

includes(scopes, id) == \E i \in 1..Len(scopes) : scopes[i] = id

filterScope(valueDefinitions, scopes) ==
  SelectSeq(valueDefinitions,
            LAMBDA definition :
              falsy(definition.scope) \/ includes(scopes, definition.scope[1]))

\* definitions.some(def => def.identifier === name)
some(definitions, name) ==
  \E i \in 1..Len(definitions) : definitions[i].identifier = name

\* the scopes that contain the node id, from the innermost to the root
RECURSIVE scopesForId(_, _)
RECURSIVE scopesInChildren(_, _, _)
scopesForId(tree, id) ==
  IF tree.value = id
    THEN <<id>>
    ELSE LET below == scopesInChildren(tree.children, id, 1)
         IN IF below = <<>> THEN <<>> ELSE Append(below, tree.value)
scopesInChildren(children, id, i) ==
  IF i > Len(children)
    THEN <<>>
    ELSE LET s == scopesForId(children[i], id)
         IN IF s # <<>> THEN s ELSE scopesInChildren(children, id, i + 1)

currentModule(r) == r.moduleStack[Len(r.moduleStack)]

\* the tables are given for every module of the tree
table(r) == r.tables[currentModule(r)]

NameError(kind, name, r, id) ==
  [kind |-> kind, name |-> name, definitionName |-> r.defName,
   moduleName |-> currentModule(r), reference |-> id]

pushResult(r, error) ==
  [r EXCEPT !.results = Append(@, [kind |-> "error", errors |-> <<error>>])]

NameResolver_enterDef(r, def) ==
  IF def.kind = "module"
    THEN [r EXCEPT !.defName = def.module.name]
    ELSE [r EXCEPT !.defName = def.name]

NameResolver_enterModuleDef(r, def) ==
  [r EXCEPT !.moduleStack = Append(@, def.module.name)]

NameResolver_exitModuleDef(r) ==
  [r EXCEPT !.moduleStack = SubSeq(@, 1, Len(@) - 1)]

NameResolver_enterName(r, nameExpr) ==
  LET valueDefinitionsForScope ==
        filterScope(table(r).valueDefinitions,
                    scopesForId(r.scopeTree, nameExpr.id))
  IN IF ~some(valueDefinitionsForScope, nameExpr.name)
       THEN pushResult(r, NameError("value", nameExpr.name, r, nameExpr.id))
       ELSE r

\* seeded fault: an application of an undefined operator is not reported
NameResolver_enterApp_Silent(r, appExpr) == r

NameResolver_enterApp(r, appExpr) ==
  LET valueDefinitionsForScope ==
        filterScope(table(r).valueDefinitions,
                    scopesForId(r.scopeTree, appExpr.id))
  IN IF ~some(valueDefinitionsForScope, appExpr.opcode)
       THEN pushResult(r, NameError("value", appExpr.opcode, r, appExpr.id))
       ELSE r

NameResolver_enterVarType(r, type) ==
  IF ~some(table(r).typeDefinitions, type.name)
    THEN pushResult(r, NameError("type", type.name, r, type.id))
    ELSE r

NameResolver_enterConstType(r, type) ==
  IF ~some(table(r).typeDefinitions, type.name)
    THEN pushResult(r, NameError("type", type.name, r, type.id))
    ELSE r

RECURSIVE reduceErrors(_, _, _)
reduceErrors(results, i, errors) ==
  IF i > Len(results)
    THEN errors
    ELSE reduceErrors(results, i + 1,
                      IF results[i].kind = "error"
                        THEN errors \o results[i].errors
                        ELSE errors)

\* seeded fault: the errors after the first one are lost
mergeNameResults_First(results) ==
  IF Len(results) > 0
    THEN [kind |-> "error", errors |-> results[1].errors]
    ELSE [kind |-> "ok", errors |-> <<>>]

mergeNameResults(results) ==
  LET errors == reduceErrors(results, 1, <<>>)
  IN IF Len(errors) > 0
       THEN [kind |-> "error", errors |-> errors]
       ELSE [kind |-> "ok", errors |-> <<>>]

\* the visitor as constructed by resolveNames, with what the model keeps of
\* the walk: the references visited, the module-level definition that is
\* being walked (inDef), and the result once it is returned
NewResolver(tables, scopeTree) ==
  [tables |-> tables, scopeTree |-> scopeTree, results |-> <<>>,
   defName |-> "", moduleStack |-> <<>>, visited |-> <<>>, inDef |-> "",
   phase |-> "walking", result |-> [kind |-> "", errors |-> <<>>]]

ScopeNode(value, children) == [value |-> value, children |-> children]

NoTables == [valueDefinitions |-> <<>>, typeDefinitions |-> <<>>]

NoResolver ==
  NewResolver([M |-> NoTables, N |-> NoTables], ScopeNode(0, <<>>))

(***************************************************************************)
(* The state machine: the registers are set up by assignments and shifts,  *)
(* then one computable is evaluated, then the registers are shifted.       *)
(***************************************************************************)
NoRun ==
  [e |-> Tt, seed |-> <<0>>, vars |-> Unset, nextVars |-> Unset,
   errs |-> <<>>, res |-> none, log |-> <<>>, drawn |-> 0]
NoTest ==
  [nruns |-> 0, nsteps |-> 0, init |-> "", next |-> "", inv |-> "",
   seed |-> <<0>>, vars |-> Unset, nextVars |-> Unset, errs |-> <<>>,
   res |-> none, obs |-> <<>>]
NoSnapshot ==
  [taken |-> FALSE, vars |-> Unset, nextVars |-> Unset,
   atVars |-> Unset, atNextVars |-> Unset, before |-> Unset, last |-> "none"]

Init ==
  /\ vars = Unset
  /\ nextVars = Unset
  /\ runtimeErrors = <<>>
  /\ pc = "ready"
  /\ run = NoRun
  /\ held = NoSnapshot
  /\ lastTrace = none
  /\ sim = NoTest
  /\ context = Compiled.context
  /\ compStack = <<>>
  /\ compileErrors = <<>>
  /\ visit = NoVisit
  /\ resolver = NoResolver
  /\ state = NoState

Live == Machine(vars, nextVars, runtimeErrors, <<0>>)

\* the registers and the error log become those of the machine st; the
\* shadow register _lastTrace is written by _test only
Becomes(st) ==
  /\ vars' = st.vars
  /\ nextVars' = st.nextVars
  /\ runtimeErrors' = st.runtimeErrors
  /\ UNCHANGED <<lastTrace, sim, compiler, resolver, state>>

\* x' = v is evaluated
SetValue ==
  /\ pc = "ready"
  /\ \E i \in VarIdx, v \in SetupVals :
       Becomes(Eval(Assign(VarName[i], IntE(v)), <<>>, Live))
  /\ UNCHANGED <<pc, run, held>>

Shift ==
  /\ pc = "ready"
  /\ Becomes(shiftVars(Live))
  /\ UNCHANGED <<pc, run, held>>

Evaluate(e, seed) ==
  /\ pc = "ready"
  /\ pc' = "evaluated"
  /\ \E st \in {Eval(e, <<>>, Machine(vars, nextVars, runtimeErrors, seed))} :
       /\ Becomes(st)
       /\ run' = [e |-> e, seed |-> seed, vars |-> vars, nextVars |-> nextVars,
                  errs |-> runtimeErrors, res |-> st.res, log |-> st.log,
                  drawn |-> st.drawn]
  /\ UNCHANGED held

EvalOp(op, operands) ==
  /\ pc = "ready"
  /\ \E args \in SeqsUpTo(operands, MaxArgs) :
       \E seed \in Seeds(App(op, args)) : Evaluate(App(op, args), seed)

EvalAll == EvalOp("actionAll", Actions)
EvalAny == EvalOp("actionAny", Actions)
EvalThen == EvalOp("then", Actions)
EvalAnd == EvalOp("and", BoolOperands)
EvalOr == EvalOp("or", BoolOperands)
EvalAssign ==
  /\ pc = "ready"
  /\ \E i \in VarIdx, rhs \in Rhs : Evaluate(Assign(VarName[i], rhs), <<0>>)
EvalScenario ==
  /\ pc = "ready"
  /\ \E e \in Scenarios : \E seed \in Seeds(e) : Evaluate(e, seed)

\* the simulator shifts the registers after an action that returned true
isTrue(res) == isJust(res) /\ toBool(res[1])

ShiftAfter ==
  /\ pc = "evaluated"
  /\ isTrue(run.res)
  /\ pc' = "shifted"
  /\ Becomes(shiftVars(Live))
  /\ UNCHANGED <<run, held>>

Next ==
  \/ SetValue
  \/ Shift
  \/ EvalAll
  \/ EvalAny
  \/ EvalThen
  \/ EvalAnd
  \/ EvalOr
  \/ EvalAssign
  \/ EvalScenario
  \/ ShiftAfter

Spec == Init /\ [][Next]_allVars

(***************************************************************************)
(* The simulator: _test(nruns, nsteps, init, next, inv).                   *)
(***************************************************************************)
\* a seeded fault: a name that is not in the context is an action that
\* returns true
callable_Lenient(name) ==
  CASE name = "Init" -> CountersInit
    [] name = "InitBoth" -> App("actionAll", <<SetN1, SetM1>>)
    [] name = "OnPositive" -> OnPositive
    [] name = "Step" -> App("actionAny", <<SetN2, SetN1>>)
    [] name = "Disabled" -> Ff
    [] name = "Failing" -> Diverge
    [] name = "True" -> Tt
    [] name = "NSmall" -> App("ilt", <<NameE("n"), IntE(2)>>)
    [] OTHER -> Tt

\* the callables of the context that _test looks up by name
callable(name) ==
  CASE name = "Init" -> CountersInit
    [] name = "InitBoth" -> App("actionAll", <<SetN1, SetM1>>)
    [] name = "OnPositive" -> OnPositive
    [] name = "Step" -> App("actionAny", <<SetN2, SetN1>>)
    [] name = "Disabled" -> Ff
    [] name = "Failing" -> Diverge
    [] name = "True" -> Tt
    [] name = "NSmall" -> App("ilt", <<NameE("n"), IntE(2)>>)
    \* contextGet(name, ['callable']) ?? fail
    [] OTHER -> App("fail", <<>>)

\* "Missing" is the name of no callable of the context
TestInits == {"Init", "InitBoth", "Disabled", "Failing", "Missing"}
TestSteps == {"OnPositive", "Step", "Disabled", "Failing", "Missing"}
TestInvs == {"True", "NSmall", "Failing", "Missing"}

\* the fields [name, value] of the registers that hold a value
RECURSIVE varsToRecordFrom(_, _)
varsToRecordFrom(regs, i) ==
  IF i > Len(regs) THEN <<>>
  ELSE (IF isJust(regs[i]) THEN <<<<VarName[i], regs[i][1]>>>> ELSE <<>>)
       \o varsToRecordFrom(regs, i + 1)

\* a record that has a field for every register, set or not
RECURSIVE varsToRecord_AllFrom(_, _)
varsToRecord_AllFrom(regs, i) ==
  IF i > Len(regs) THEN <<>>
  ELSE <<<<VarName[i], regs[i]>>>> \o varsToRecord_AllFrom(regs, i + 1)

varsToRecord_All(st) == varsToRecord_AllFrom(st.vars, 1)

varsToRecord(st) == varsToRecordFrom(st.vars, 1)

\* the simulation in progress: the machine, the trace of the run, the
\* flag errorFound, and what has been observed of the simulation so far
Simulation(st) == [st |-> st, trace |-> <<>>, errorFound |-> FALSE, obs |-> <<>>]

observe(ts, ty, runNo) ==
  [ts EXCEPT !.obs = Append(@, [ty |-> ty, runNo |-> runNo, res |-> ts.st.res,
                                vars |-> ts.st.vars, nextVars |-> ts.st.nextVars,
                                trace |-> ts.trace])]

\* a check that finds an error only when inv returns false
checkInv_FalseOnly(inv, runNo, ts) ==
  LET s1 == shiftVars(ts.st)
      t1 == observe([ts EXCEPT !.st = s1, !.trace = Append(@, varsToRecord(s1))],
                    "shift", runNo)
      s2 == Eval(inv, <<5>>, s1)
  IN  observe([t1 EXCEPT !.st = s2, !.errorFound = (s2.res = just(mkBool(FALSE)))],
              "inv", runNo)

\* shiftVars(), trace.push(varsToRecord()) and the evaluation of inv
checkInv(inv, runNo, ts) ==
  LET shifted(s1) ==
        observe([ts EXCEPT !.st = s1, !.trace = Append(@, varsToRecord(s1))],
                "shift", runNo)
      checked(t1, s2) ==
        observe([t1 EXCEPT !.st = s2, !.errorFound = ~isTrue(s2.res)], "inv", runNo)
      evaluated(s1) == checked(shifted(s1), Eval(inv, <<5>>, s1))
  IN  evaluated(shiftVars(ts.st))

RECURSIVE stepLoop(_, _, _, _, _, _)

\* a loop that reports a step that cannot be taken as an error
stepLoop_Deadlock(i, nsteps, next, inv, runNo, ts) ==
  IF ts.errorFound \/ i >= nsteps THEN ts
  ELSE LET s1 == Eval(next, <<4>>, ts.st)
           t1 == observe([ts EXCEPT !.st = s1], "step", runNo)
       IN  IF isTrue(s1.res)
           THEN stepLoop(i + 1, nsteps, next, inv, runNo, checkInv(inv, runNo, t1))
           ELSE [t1 EXCEPT !.errorFound = TRUE]

\* the loop over the steps of a run
stepLoop(i, nsteps, next, inv, runNo, ts) ==
  IF ts.errorFound \/ i >= nsteps THEN ts
  ELSE LET after(s1, t1) ==
             IF isTrue(s1.res)
             THEN stepLoop(i + 1, nsteps, next, inv, runNo, checkInv(inv, runNo, t1))
             ELSE t1
           taken(s1) == after(s1, observe([ts EXCEPT !.st = s1], "step", runNo))
       IN  taken(Eval(next, <<4>>, ts.st))

\* a seeded fault: the trace is not reset at the start of a run
singleRun_NoReset(nsteps, init, next, inv, runNo, ts) ==
  LET s1 == Eval(init, <<3>>, ts.st)
      t1 == observe([ts EXCEPT !.st = s1], "init", runNo)
  IN  IF isTrue(s1.res)
      THEN stepLoop(0, nsteps, next, inv, runNo, checkInv(inv, runNo, t1))
      ELSE t1

\* a single random run
singleRun(nsteps, init, next, inv, runNo, ts) ==
  LET after(s1, t1) ==
        IF isTrue(s1.res)
        THEN stepLoop(0, nsteps, next, inv, runNo, checkInv(inv, runNo, t1))
        ELSE t1
      started(s1) ==
        after(s1, observe([ts EXCEPT !.st = s1, !.trace = <<>>], "init", runNo))
  IN  started(Eval(init, <<3>>, ts.st))

RECURSIVE runLoop(_, _, _, _, _, _, _, _)

\* a loop that leaves the registers of a run in which an error was found
runLoop_KeepOnError(runNo, nruns, nsteps, init, next, inv, saved, ts) ==
  IF ts.errorFound \/ runNo >= nruns THEN ts
  ELSE LET t1 == singleRun(nsteps, init, next, inv, runNo, ts)
           s2 == recoverNextVars(recoverVars(t1.st, saved.vars), saved.nextVars)
           t2 == observe([t1 EXCEPT !.st = s2], "recover", runNo)
       IN  IF t1.errorFound THEN t1
           ELSE runLoop(runNo + 1, nruns, nsteps, init, next, inv, saved, t2)

\* a loop that goes on with the next run after an error was found
runLoop_NoStop(runNo, nruns, nsteps, init, next, inv, saved, ts) ==
  IF runNo >= nruns THEN ts
  ELSE LET t1 == singleRun(nsteps, init, next, inv, runNo, ts)
           s2 == recoverNextVars(recoverVars(t1.st, saved.vars), saved.nextVars)
           t2 == observe([t1 EXCEPT !.st = s2], "recover", runNo)
       IN  runLoop(runNo + 1, nruns, nsteps, init, next, inv, saved, t2)

\* the loop over the runs
runLoop(runNo, nruns, nsteps, init, next, inv, saved, ts) ==
  IF ts.errorFound \/ runNo >= nruns THEN ts
  ELSE LET recovered(t1) ==
             observe([t1 EXCEPT !.st = recoverNextVars(recoverVars(t1.st, saved.vars),
                                                       saved.nextVars)],
                     "recover", runNo)
       IN  runLoop(runNo + 1, nruns, nsteps, init, next, inv, saved,
                   recovered(singleRun(nsteps, init, next, inv, runNo, ts)))

\* doRun of test: the result is the simulation, with the verdict as the
\* result of its machine and the trace that _lastTrace gets
doRun(nruns, nsteps, initName, nextName, invName, st) ==
  LET saved == [vars |-> snapshotVars(st), nextVars |-> snapshotNextVars(st)]
      verdict(ts) == [ts EXCEPT !.st = withRes(ts.st, just(mkBool(~ts.errorFound)))]
  IN  verdict(runLoop(0, nruns, nsteps, callable(initName), callable(nextName),
                      callable(invName), saved, Simulation(st)))

\* the draws of Math.random() that a simulation consumes, in turn
TestSeeds(nextName) ==
  IF nAny(callable(nextName)) = 0 THEN {<<0>>}
  ELSE [1..MaxRuns -> 0..(RandRes - 1)]

Test(nruns, nsteps, initName, nextName, invName, seed) ==
  /\ pc = "ready"
  /\ pc' = "tested"
  /\ \E ts \in {doRun(nruns, nsteps, initName, nextName, invName,
                      Machine(vars, nextVars, runtimeErrors, seed))} :
       /\ vars' = ts.st.vars
       /\ nextVars' = ts.st.nextVars
       /\ runtimeErrors' = ts.st.runtimeErrors
       /\ lastTrace' = just(ts.trace)
       /\ sim' = [nruns |-> nruns, nsteps |-> nsteps, init |-> initName,
                  next |-> nextName, inv |-> invName, seed |-> seed,
                  vars |-> vars, nextVars |-> nextVars, errs |-> runtimeErrors,
                  res |-> ts.st.res, obs |-> ts.obs]
  /\ UNCHANGED <<run, held, compiler, resolver, state>>

RunTest ==
  /\ pc = "ready"
  /\ \E nruns \in 0..MaxRuns, nsteps \in 0..MaxSteps :
       \E initName \in TestInits, nextName \in TestSteps, invName \in TestInvs :
         \E seed \in TestSeeds(nextName) :
           Test(nruns, nsteps, initName, nextName, invName, seed)

\* n' = v is evaluated before the simulation
TestSetValue ==
  /\ pc = "ready"
  /\ \E v \in SetupVals : Becomes(Eval(Assign("n", IntE(v)), <<>>, Live))
  /\ UNCHANGED <<pc, run, held>>

\* x, next(x) or _lastTrace is read, before or after a simulation
Reads ==
  {NameE(x) : x \in {"n", "m"}} \cup {App("next", <<NameE(x)>>) : x \in {"n", "m"}}

ReadRegister ==
  /\ pc \in {"ready", "tested"}
  /\ pc' = "read"
  /\ \E e \in Reads \cup {NameE("_lastTrace")} :
       \E st \in {IF e.x = "_lastTrace" THEN evalShadow(Live, lastTrace)
                  ELSE Eval(e, <<>>, Live)} :
         /\ Becomes(st)
         /\ run' = [e |-> e, seed |-> <<0>>, vars |-> vars, nextVars |-> nextVars,
                    errs |-> runtimeErrors, res |-> st.res, log |-> st.log,
                    drawn |-> st.drawn]
  /\ UNCHANGED held

NextTest ==
  \/ TestSetValue
  \/ Shift
  \/ RunTest
  \/ ReadRegister

SpecTest == Init /\ [][NextTest]_allVars

(***************************************************************************)
(* The visitor is taken through the nodes of a module: declarations of     *)
(* variables, definitions of operators, and the literals, names and        *)
(* lambdas of their bodies.                                                *)
(***************************************************************************)
VarDecls == {"x", "Bool"}
OpDecls == {"f"}
LambdaParams == {<<"x">>, <<"f">>, <<"_lastTrace">>}
RefNames == {"x", "f", "Bool", "_lastTrace"}

InitNames ==
  /\ vars = Constructed.vars
  /\ nextVars = Constructed.nextVars
  /\ context \in {Constructed.context, WithOperator.context}
  /\ compStack = Constructed.compStack
  /\ compileErrors = Constructed.compileErrors
  /\ visit = NoVisit
  /\ resolver = NoResolver
  /\ state = NoState
  /\ runtimeErrors = <<>>
  /\ pc = "ready"
  /\ run = NoRun
  /\ held = NoSnapshot
  /\ lastTrace = none
  /\ sim = NoTest

Visitor ==
  [context |-> context, compStack |-> compStack,
   compileErrors |-> compileErrors, vars |-> vars, nextVars |-> nextVars]

\* the id of the node that is visited next
NodeId == <<visit.n + 1>>

\* the visitor becomes v by the visit of a node and of its nargs arguments
VisitedWith(v, op, name, open, nargs) ==
  /\ visit.n + nargs < MaxNodes
  /\ context' = v.context
  /\ compStack' = v.compStack
  /\ compileErrors' = v.compileErrors
  /\ vars' = v.vars
  /\ nextVars' = v.nextVars
  /\ visit' = [n |-> visit.n + nargs + 1, open |-> open,
               last |-> [op |-> op, name |-> name, before |-> compStack,
                         nargs |-> nargs, errors |-> Len(compileErrors),
                         closed |-> IF op = "exitLambda"
                                    THEN visit.open[Len(visit.open)] ELSE <<>>]]
  /\ UNCHANGED <<runtimeErrors, pc, run, held, lastTrace, sim, resolver, state>>

\* the visitor becomes v by the visit of a node
Visited(v, op, name, open) == VisitedWith(v, op, name, open, 0)

VisitVar ==
  /\ visit.open = <<>>
  /\ \E name \in VarDecls :
       Visited(exitVar(Visitor, name), "exitVar", name, visit.open)

VisitOpDef ==
  /\ visit.open = <<>>
  /\ \E name \in OpDecls :
       Visited(exitOpDef(Visitor, name, NodeId), "exitOpDef", name, visit.open)

VisitLiteral == Visited(enterLiteral(Visitor), "enterLiteral", "", visit.open)

VisitName ==
  \E name \in RefNames :
    Visited(enterName(Visitor, name, NodeId), "enterName", name, visit.open)

VisitEnterLambda ==
  \E params \in LambdaParams :
    Visited(enterLambda(Visitor, params), "enterLambda", "",
            Append(visit.open, params))

\* an application of a user-defined operator to literals: the arguments
\* are visited, then the application is left
AppOps == {"f", "x", "g"}
VisitApp ==
  \E opcode \in AppOps, nargs \in 0..MaxArgs :
    VisitedWith(applyUserDefined(literals(Visitor, nargs),
                                 [opcode |-> opcode, id |-> <<visit.n + nargs + 1>>]),
                "exitApp", opcode, visit.open, nargs)

\* a lambda is left after its body has been visited
VisitExitLambda ==
  /\ visit.open # <<>>
  /\ visit.last.op \in {"enterLiteral", "enterName", "exitLambda"}
  /\ Visited(exitLambda(Visitor, visit.open[Len(visit.open)], NodeId),
             "exitLambda", "", SubSeq(visit.open, 1, Len(visit.open) - 1))

NextNames ==
  \/ VisitVar
  \/ VisitOpDef
  \/ VisitLiteral
  \/ VisitName
  \/ VisitApp
  \/ VisitEnterLambda
  \/ VisitExitLambda

SpecNames == InitNames /\ [][NextNames]_allVars

(***************************************************************************)
(* resolveNames: the visitor is constructed with the tables and the scope  *)
(* tree, the module is walked, and the results are merged.  The walk       *)
(* enters module M and in it the definition of the nested module N, and    *)
(* it visits definitions and the references in their bodies; the k-th      *)
(* reference visited has the node id k - 1.                                *)
(***************************************************************************)
Builtin == [identifier |-> "iadd", scope |-> Unscoped]

\* the definitions of a in the table of M: unscoped, or scoped to a node
ValueDefs ==
  {Builtin} \cup
  {[identifier |-> "a", scope |-> sc] :
     sc \in {Unscoped, ScopedTo(0), ScopedTo(1), ScopedTo(2)}}

ValueTables ==
  {<<>>, <<Builtin>>} \cup {<<d, Builtin>> : d \in ValueDefs \ {Builtin}}

TablesOf(valueDefinitions) ==
  [M |-> [valueDefinitions |-> valueDefinitions,
          typeDefinitions |-> <<[identifier |-> "T"]>>],
   N |-> [valueDefinitions |-> <<Builtin>>, typeDefinitions |-> <<>>]]

\* the node 3 is the root; the scopes 0 and 1 are side by side, or nested
ScopeTrees ==
  {ScopeNode(3, <<ScopeNode(0, <<>>),
                  ScopeNode(1, <<ScopeNode(2, <<>>)>>)>>),
   ScopeNode(3, <<ScopeNode(0, <<ScopeNode(1, <<ScopeNode(2, <<>>)>>)>>)>>)}

ModuleDef(name) == [kind |-> "module", name |-> "", module |-> [name |-> name]]
DefNodes == {[kind |-> "def", name |-> "x", module |-> [name |-> ""]]}
LetDefNodes == {[kind |-> "def", name |-> "h", module |-> [name |-> ""]]}
NameNodes == {"a", "y"}
AppNodes == {"iadd"}
TypeNodes == {"T"}

InitResolve ==
  /\ vars = Constructed.vars
  /\ nextVars = Constructed.nextVars
  /\ context = Constructed.context
  /\ compStack = Constructed.compStack
  /\ compileErrors = Constructed.compileErrors
  /\ visit = NoVisit
  /\ runtimeErrors = <<>>
  /\ pc = "ready"
  /\ run = NoRun
  /\ held = NoSnapshot
  /\ lastTrace = none
  /\ sim = NoTest
  /\ state = NoState
  /\ \E valueDefinitions \in ValueTables, scopeTree \in ScopeTrees :
       resolver = NewResolver(TablesOf(valueDefinitions), scopeTree)

\* the visitor becomes r
Walked(r) ==
  /\ resolver' = r
  /\ UNCHANGED <<vars, nextVars, runtimeErrors, pc, run, held, lastTrace, sim,
                 compiler, state>>

\* the visitor becomes r by the visit of a reference
Referenced(r, kind, name) ==
  Walked([r EXCEPT !.visited =
            Append(@, [kind |-> kind, name |-> name, id |-> Len(@),
                       moduleName |-> currentModule(resolver),
                       definitionName |-> resolver.defName,
                       inDef |-> resolver.inDef])])

\* a reference lies in a definition of a module
InModule ==
  /\ resolver.phase = "walking"
  /\ resolver.moduleStack # <<>>
  /\ resolver.inDef # ""
  /\ Len(resolver.visited) < MaxRefs

NextId == Len(resolver.visited)

WalkEnterModule ==
  /\ resolver.phase = "walking"
  /\ \/ /\ resolver.moduleStack = <<>>
        /\ Walked(NameResolver_enterModuleDef(resolver, ModuleDef("M")))
     \/ /\ resolver.moduleStack = <<"M">>
        /\ Walked(NameResolver_enterModuleDef(
                    NameResolver_enterDef([resolver EXCEPT !.inDef = ""],
                                          ModuleDef("N")),
                    ModuleDef("N")))

\* the walk ends when the module M is left
WalkExitModule ==
  /\ resolver.phase = "walking"
  /\ resolver.moduleStack # <<>>
  /\ LET r == NameResolver_exitModuleDef(resolver)
     IN Walked([r EXCEPT !.inDef = "",
                         !.phase =
                           IF r.moduleStack = <<>> THEN "walked" ELSE "walking"])

WalkDef ==
  /\ resolver.phase = "walking"
  /\ resolver.moduleStack # <<>>
  /\ \E def \in DefNodes :
       Walked([NameResolver_enterDef(resolver, def) EXCEPT !.inDef = def.name])

\* in the body of a module-level definition, the operator definition of a
\* let-in is entered and left; its own body has no reference
WalkLetDef ==
  /\ resolver.phase = "walking"
  /\ resolver.moduleStack # <<>>
  /\ resolver.inDef # ""
  /\ \E def \in LetDefNodes : Walked(NameResolver_enterDef(resolver, def))

WalkName ==
  /\ InModule
  /\ \E name \in NameNodes :
       Referenced(NameResolver_enterName(resolver, [name |-> name, id |-> NextId]),
                  "name", name)

WalkApp ==
  /\ InModule
  /\ \E opcode \in AppNodes :
       Referenced(NameResolver_enterApp(resolver, [opcode |-> opcode, id |-> NextId]),
                  "app", opcode)

WalkVarType ==
  /\ InModule
  /\ \E name \in TypeNodes :
       Referenced(NameResolver_enterVarType(resolver, [name |-> name, id |-> NextId]),
                  "varType", name)

WalkConstType ==
  /\ InModule
  /\ \E name \in TypeNodes :
       Referenced(NameResolver_enterConstType(resolver, [name |-> name, id |-> NextId]),
                  "constType", name)

\* resolveNames returns the merged results
ResolveNames ==
  /\ resolver.phase = "walked"
  /\ Walked([resolver EXCEPT !.phase = "resolved",
                             !.result = mergeNameResults(resolver.results)])

NextResolve ==
  \/ WalkEnterModule
  \/ WalkExitModule
  \/ WalkDef
  \/ WalkLetDef
  \/ WalkName
  \/ WalkApp
  \/ WalkVarType
  \/ WalkConstType
  \/ ResolveNames

SpecResolve == InitResolve /\ [][NextResolve]_allVars

(***************************************************************************)
(* The built-in operators: one application of an operator is evaluated.    *)
(* The variable n holds an integer or is not set, the variable m holds a   *)
(* list.                                                                   *)
(***************************************************************************)
RECURSIVE TuplesUpTo(_, _)
TuplesUpTo(S, k) ==
  IF k = 0 THEN {<<>>}
  ELSE LET shorter == TuplesUpTo(S, k - 1)
       IN  shorter \cup {Append(t, x) : t \in shorter, x \in S}

ListVals == {mkList(t) : t \in TuplesUpTo({mkInt(1), mkInt(2)}, MaxLen)}
Indices == -1..(MaxLen + 1)
SmallInts == -2..2

InitOps ==
  /\ vars \in {<<nval, just(l)>> : nval \in {none, just(mkInt(3))}, l \in ListVals}
  /\ nextVars = Unset
  /\ runtimeErrors = <<>>
  /\ pc = "ready"
  /\ run = NoRun
  /\ held = NoSnapshot
  /\ lastTrace = none
  /\ sim = NoTest
  /\ context = Compiled.context
  /\ compStack = <<>>
  /\ compileErrors = <<>>
  /\ visit = NoVisit
  /\ resolver = NoResolver
  /\ state = NoState

EvalArith ==
  /\ pc = "ready"
  /\ \E op \in {"idiv", "imod", "ipow"}, a \in SmallInts, b \in SmallInts :
       Evaluate(App(op, <<IntE(a), IntE(b)>>), <<0>>)

EvalSlice ==
  /\ pc = "ready"
  /\ \E s \in Indices, e \in Indices :
       Evaluate(App("slice", <<NameE("m"), IntE(s), IntE(e)>>), <<0>>)

EvalNth ==
  /\ pc = "ready"
  /\ \E i \in Indices : Evaluate(App("nth", <<NameE("m"), IntE(i)>>), <<0>>)

\* nth(replaceAt(m, i, 7), j), and replaceAt(m, i, 7) on its own
EvalReplaceAt ==
  /\ pc = "ready"
  /\ \E i \in Indices :
       \/ Evaluate(App("replaceAt", <<NameE("m"), IntE(i), IntE(7)>>), <<0>>)
       \/ \E j \in Indices :
            Evaluate(App("nth", <<App("replaceAt", <<NameE("m"), IntE(i), IntE(7)>>),
                                  IntE(j)>>), <<0>>)

\* x => 1 / x > 0: fails on 0, holds of 1, does not hold of 2
PositiveInverse ==
  Lambda(<<ParamE("x")>>,
         App("igt", <<App("idiv", <<IntE(1), ParamE("x")>>), IntE(0)>>))
\* x => 1 / x < 1: fails on 0, does not hold of 1, holds of 2
SmallInverse ==
  Lambda(<<ParamE("x")>>,
         App("ilt", <<App("idiv", <<IntE(1), ParamE("x")>>), IntE(1)>>))
RECURSIVE IntEs(_)
IntEs(t) == IF t = <<>> THEN <<>> ELSE <<IntE(Head(t))>> \o IntEs(Tail(t))

EvalQuantifier ==
  /\ pc = "ready"
  /\ \E op \in {"exists", "forall"}, f \in {PositiveInverse, SmallInverse},
        t \in TuplesUpTo(0..2, MaxLen) :
       Evaluate(App(op, <<App("Set", IntEs(t)), f>>), <<0>>)

\* (a, b) => a - b, and (a, b) => a / (b - 2) and (a, b) => (a - 2) / b,
\* which fail when the second and the first parameter is 2
FoldBodies ==
  {App("isub", <<ParamE("a"), ParamE("b")>>),
   App("idiv", <<ParamE("a"), App("isub", <<ParamE("b"), IntE(2)>>)>>),
   App("idiv", <<App("isub", <<ParamE("a"), IntE(2)>>), ParamE("b")>>)}

EvalFold ==
  /\ pc = "ready"
  /\ \E op \in {"fold", "foldl", "foldr"}, init \in {0, 5}, body \in FoldBodies :
       Evaluate(App(op, <<NameE("m"), IntE(init),
                          Lambda(<<ParamE("a"), ParamE("b")>>, body)>>), <<0>>)

RepeatedActions ==
  {SetN1, IncN, OnPositive, Ff, Diverge, App("actionAll", <<SetM1, IncN>>)}
Counts == {IntE(k) : k \in -1..MaxSteps} \cup {App("idiv", <<IntE(1), IntE(0)>>)}

EvalRepeated ==
  /\ pc = "ready"
  /\ \E action \in RepeatedActions, count \in Counts :
       Evaluate(App("repeated", <<action, count>>), <<0>>)

Conditions == {Tt, Ff, NPositive, IntE(1)}
Arms == {SetN1, SetM1, Diverge, Ff}

EvalIte ==
  /\ pc = "ready"
  /\ \E c \in Conditions, t \in Arms, e \in Arms :
       Evaluate(App("ite", <<c, t, e>>), <<0>>)

NextOps ==
  \/ EvalArith
  \/ EvalSlice
  \/ EvalNth
  \/ EvalReplaceAt
  \/ EvalQuantifier
  \/ EvalFold
  \/ EvalRepeated
  \/ EvalIte

SpecOps == InitOps /\ [][NextOps]_allVars

(***************************************************************************)
(* The register banks on their own: assignments, shifts, and a snapshot    *)
(* of both banks that is held and recovered, as chainAllOrThen and         *)
(* translateOrAction hold and recover theirs.  held.atVars and             *)
(* held.atNextVars are the registers at the time of the snapshot,          *)
(* held.before is the bank that the last recover overwrote.                *)
(***************************************************************************)
RegVals == {mkInt(1), mkInt(2)}

RegAssign ==
  /\ pc = "ready"
  /\ \E i \in VarIdx, v \in RegVals : Becomes(assignFun(Live, i, v))
  /\ held' = [held EXCEPT !.last = "assign"]
  /\ UNCHANGED <<pc, run>>

RegShift ==
  /\ pc = "ready"
  /\ Becomes(shiftVars(Live))
  /\ held' = [held EXCEPT !.last = "shift"]
  /\ UNCHANGED <<pc, run>>

RegSnapshot ==
  /\ pc = "ready"
  /\ held' = [taken |-> TRUE, vars |-> snapshotVars(Live),
              nextVars |-> snapshotNextVars(Live), atVars |-> vars,
              atNextVars |-> nextVars, before |-> Unset, last |-> "snapshot"]
  /\ UNCHANGED <<vars, nextVars, runtimeErrors, pc, run, lastTrace, sim, compiler,
                 resolver, state>>

RegRecoverVars ==
  /\ pc = "ready"
  /\ held.taken
  /\ Becomes(recoverVars(Live, held.vars))
  /\ held' = [held EXCEPT !.before = vars, !.last = "recoverVars"]
  /\ UNCHANGED <<pc, run>>

RegRecoverNextVars ==
  /\ pc = "ready"
  /\ held.taken
  /\ Becomes(recoverNextVars(Live, held.nextVars))
  /\ held' = [held EXCEPT !.before = nextVars, !.last = "recoverNextVars"]
  /\ UNCHANGED <<pc, run>>

NextRegs ==
  \/ RegAssign
  \/ RegShift
  \/ RegSnapshot
  \/ RegRecoverVars
  \/ RegRecoverNextVars

SpecRegs == Init /\ [][NextRegs]_allVars

(***************************************************************************)
(* The example modules.  The variable `state` holds the state variables of *)
(* the module that is run, as the definition `state` of the modules does,  *)
(* together with the chain of the actions that were applied, A.then(B)...  *)
(* and the flag ok, which is false once an action of the chain was not     *)
(* enabled.  The variables of the compiler take no part.                   *)
(***************************************************************************)
Runtime ==
  <<vars, nextVars, runtimeErrors, pc, run, held, lastTrace, sim, compiler, resolver>>

Idle ==
  /\ vars = Unset
  /\ nextVars = Unset
  /\ runtimeErrors = <<>>
  /\ pc = "ready"
  /\ run = NoRun
  /\ held = NoSnapshot
  /\ lastTrace = none
  /\ sim = NoTest
  /\ context = Compiled.context
  /\ compStack = <<>>
  /\ compileErrors = <<>>
  /\ visit = NoVisit
  /\ resolver = NoResolver

\* an action of a chain, by its name and its arguments
Act(op, sender, receiver, value) ==
  [op |-> op, sender |-> sender, receiver |-> receiver, value |-> value]

\* A.then(B): the chain is extended by the action `act`, whose successor
\* states are `successors`; without a successor the action is not enabled
\* and the chain fails
Then(module, act, successors) ==
  /\ state.module = module
  /\ state.ok
  /\ Len(state.chain) < MaxChain
  /\ IF successors = {}
     THEN state' = [state EXCEPT !.ok = FALSE, !.chain = Append(@, act)]
     ELSE \E successor \in successors :
            state' = [successor EXCEPT !.chain = Append(state.chain, act)]
  /\ UNCHANGED Runtime

\* the maximal value that a Solidity uint can carry, with UIntBits bits in
\* place of 256
MAX_UINT == 2^UIntBits - 1
isUInt(i) == 0 <= i /\ i <= MAX_UINT

(***************************************************************************)
(* SimpleAuction (part_002).                                               *)
(***************************************************************************)
CONTRACT_ADDR == {"hanSol", "jajaSol", "yodaSol"}
AuctionADDR == {"null", "alice", "bob", "charlie", "eve"} \cup CONTRACT_ADDR

evmSend(es, fromAddr, toAddr, value) ==
  LET bs == es.balances
      fromBal == bs[fromAddr] - value
      toBal == bs[toAddr] + value
      newBs == IF fromAddr = toAddr THEN bs
               ELSE [bs EXCEPT ![fromAddr] = fromBal, ![toAddr] = toBal]
  IN  IF ~isUInt(fromBal) \/ ~isUInt(toBal) \/ es.error
      THEN [es EXCEPT !.error = TRUE]
      ELSE [es EXCEPT !.balances = newBs]

RECURSIVE sumOver(_, _)
sumOver(balances, addrs) ==
  IF addrs = {} THEN 0
  ELSE LET a == CHOOSE x \in addrs : TRUE
       IN  balances[a] + sumOver(balances, addrs \ {a})
totalSupply(balances) == sumOver(balances, DOMAIN balances)

\* the state of the module before init: no variable holds a value
AuctionUnset ==
  [module |-> "SimpleAuction", chain |-> <<>>, ok |-> TRUE,
   auctionState |-> <<>>, evmState |-> <<>>]

AuctionStateOf(thisAddr, beneficiaryAddr, auctionEndTime) ==
  [addressOfThis |-> thisAddr, beneficiary |-> beneficiaryAddr,
   highestBid |-> 0, highestBidder |-> "null",
   auctionEndTime |-> auctionEndTime,
   pendingReturns |-> [a \in AuctionADDR |-> 0], ended |-> FALSE]

\* init, with the values that it chooses taken from small sets
auctionInit(s) ==
  {[s EXCEPT
      !.evmState = [blockTime |-> 10, balances |-> [a \in AuctionADDR |-> b],
                    error |-> FALSE],
      !.auctionState = AuctionStateOf(thisAddr, "eve", 12)] :
   thisAddr \in CONTRACT_ADDR, b \in {21}}

fixInit(s) ==
  {[s EXCEPT
      !.evmState = [blockTime |-> 10, balances |-> [a \in AuctionADDR |-> 21],
                    error |-> FALSE],
      !.auctionState = AuctionStateOf("hanSol", "eve", 12)]}

\* a seeded fault: the bid that is overbid is not added to the pending
\* returns of its bidder
bid_NoReturn(s, sender, value) ==
  LET as == s.auctionState
      nes == evmSend(s.evmState, sender, as.addressOfThis, value)
  IN  IF /\ ~(s.evmState.blockTime > as.auctionEndTime)
         /\ ~(value <= as.highestBid)
         /\ ~nes.error
      THEN {[s EXCEPT !.auctionState = [as EXCEPT !.highestBid = value,
                                                  !.highestBidder = sender],
                      !.evmState = nes]}
      ELSE {}

bid(s, sender, value) ==
  LET as == s.auctionState
      newReturn == as.pendingReturns[as.highestBidder] + as.highestBid
      newPendingReturns == [as.pendingReturns EXCEPT ![as.highestBidder] = newReturn]
      nes == evmSend(s.evmState, sender, as.addressOfThis, value)
  IN  IF /\ ~(s.evmState.blockTime > as.auctionEndTime)
         /\ ~(value <= as.highestBid)
         /\ (as.highestBid # 0) => (newReturn <= MAX_UINT)
         /\ ~nes.error
      THEN {[s EXCEPT !.auctionState = [as EXCEPT !.highestBid = value,
                                                  !.highestBidder = sender,
                                                  !.pendingReturns = newPendingReturns],
                      !.evmState = nes]}
      ELSE {}

\* the balances that a called contract may leave: one token of alice goes
\* to this contract or to eve, or is made from nothing, or nothing changes
NewBalances(s) ==
  LET bs == s.evmState.balances
  IN  {bs, [bs EXCEPT !["alice"] = @ + 1]}
      \cup {[bs EXCEPT !["alice"] = @ - 1, ![to] = @ + 1] :
            to \in {s.auctionState.addressOfThis, "eve"}}

withdraw(s, sender) ==
  LET amount == s.auctionState.pendingReturns[sender]
      nes == evmSend(s.evmState, s.auctionState.addressOfThis, sender, amount)
  IN  IF amount > 0
      THEN IF sender \notin CONTRACT_ADDR
           THEN IF ~nes.error
                THEN {[s EXCEPT !.evmState = nes,
                                !.auctionState.pendingReturns[sender] = 0]}
                ELSE {}
           ELSE {[s EXCEPT !.evmState.balances = newBalances] :
                 newBalances \in
                   {nb \in NewBalances(s) :
                      /\ totalSupply(nb) = totalSupply(s.evmState.balances)
                      /\ nb[s.auctionState.addressOfThis]
                           >= s.evmState.balances[s.auctionState.addressOfThis]}}
      ELSE {s}

auctionEnd(s) ==
  IF /\ ~(s.evmState.blockTime < s.auctionState.auctionEndTime)
     /\ ~s.auctionState.ended
  THEN {[s EXCEPT !.auctionState.ended = TRUE,
                  !.evmState = evmSend(s.evmState, s.auctionState.addressOfThis,
                                       s.auctionState.beneficiary,
                                       s.auctionState.highestBid)]}
  ELSE {}

\* nextBlock, with the next time taken from a small set
nextBlock(s) ==
  {[s EXCEPT !.evmState.blockTime = nextTime] :
   nextTime \in {s.evmState.blockTime + 1, s.evmState.blockTime + 5}}

Bidders == {"alice", "bob", "jajaSol"}
Bids == {5, 6}

InitAuction ==
  /\ Idle
  /\ state = AuctionUnset

Initialized == state.chain # <<>>

AuctionInit ==
  /\ ~Initialized
  /\ Then("SimpleAuction", Act("init", "", "", 0), auctionInit(state))

AuctionFixInit ==
  /\ ~Initialized
  /\ Then("SimpleAuction", Act("fixInit", "", "", 0), fixInit(state))

AuctionBid ==
  /\ Initialized
  /\ \E sender \in Bidders, value \in Bids :
       Then("SimpleAuction", Act("bid", sender, "", value), bid(state, sender, value))

AuctionWithdraw ==
  /\ Initialized
  /\ \E sender \in Bidders :
       Then("SimpleAuction", Act("withdraw", sender, "", 0), withdraw(state, sender))

AuctionEnd ==
  /\ Initialized
  /\ Then("SimpleAuction", Act("auctionEnd", "", "", 0), auctionEnd(state))

AuctionNextBlock ==
  /\ Initialized
  /\ Then("SimpleAuction", Act("nextBlock", "", "", 0), nextBlock(state))

NextAuction ==
  \/ AuctionInit
  \/ AuctionFixInit
  \/ AuctionBid
  \/ AuctionWithdraw
  \/ AuctionEnd
  \/ AuctionNextBlock

SpecAuction == InitAuction /\ [][NextAuction]_allVars

(***************************************************************************)
(* Coin (examples/solidity/Coin/Coin.qnt).                                 *)
(***************************************************************************)
ADDR == {"null", "alice", "bob", "charlie", "eve"}

\* the state of the module before init: no variable holds a value
CoinUnset ==
  [module |-> "Coin", steps |-> 0, last |-> Act("", "", "", 0),
   minter |-> "", balances |-> <<>>]

require(cond) == cond

coinInit(s) ==
  {[s EXCEPT !.minter = sender, !.balances = [a \in ADDR |-> 0]] : sender \in ADDR}

initFixed(s) ==
  {[s EXCEPT !.minter = "alice", !.balances = [a \in ADDR |-> 0]]}

mint(s, sender, receiver, amount) ==
  LET newBal == s.balances[receiver] + amount
  IN  IF /\ require(sender = s.minter)
         /\ require(isUInt(newBal))
      THEN {[s EXCEPT !.balances[receiver] = newBal]}
      ELSE {}

\* a seeded fault: the new balances are not required to be in the range
send_Unchecked(s, sender, receiver, amount) ==
  IF require(~(amount > s.balances[sender]))
  THEN IF sender = receiver
       THEN {s}
       ELSE {[s EXCEPT !.balances[sender] = @ - amount,
                       !.balances[receiver] = @ + amount]}
  ELSE {}

send(s, sender, receiver, amount) ==
  IF require(~(amount > s.balances[sender]))
  THEN IF sender = receiver
       THEN {s}
       ELSE LET newSenderBal == s.balances[sender] - amount
                newReceiverBal == s.balances[receiver] + amount
            IN  IF /\ require(isUInt(newSenderBal))
                   /\ require(isUInt(newReceiverBal))
                THEN {[s EXCEPT !.balances[sender] = newSenderBal,
                                !.balances[receiver] = newReceiverBal]}
                ELSE {}
  ELSE {}

balancesRangeInv(s) ==
  \A a \in ADDR : LET b == s.balances[a] IN (0 <= b) /\ (b <= MAX_UINT)

\* the amounts of step, 0.to(MAX_UINT), by its ends and two values between
StepAmounts == {0, MaxAmount + 1, MAX_UINT - 1, MAX_UINT}
\* the amounts of stepScoped, with MaxAmount in place of 10
ScopedAmounts == (0..MaxAmount) \cup {MAX_UINT, -1, -10}

\* one step of the state machine: an action that is not enabled is not taken
Step(act, successors) ==
  /\ state.steps < MaxCoinSteps
  /\ \E successor \in successors :
       state' = [successor EXCEPT !.steps = @ + 1, !.last = act]
  /\ UNCHANGED Runtime

\* any { mint(sender, receiver, amount), send(sender, receiver, amount) }
mintOrSend(name, amounts) ==
  \E sender \in ADDR, receiver \in ADDR, amount \in amounts :
    \/ Step(Act(name, "", "", amount), mint(state, sender, receiver, amount))
    \/ Step(Act(name, "", "", amount), send(state, sender, receiver, amount))

InitCoin ==
  /\ Idle
  /\ state = CoinUnset

CoinInit ==
  /\ state.module = "Coin" /\ state.steps = 0
  /\ Step(Act("init", "", "", 0), coinInit(state))

CoinInitFixed ==
  /\ state.module = "Coin" /\ state.steps = 0
  /\ Step(Act("initFixed", "", "", 0), initFixed(state))

CoinStep ==
  /\ state.module = "Coin" /\ state.steps > 0
  /\ mintOrSend("step", StepAmounts)

CoinStepScoped ==
  /\ state.module = "Coin" /\ state.steps > 0
  /\ mintOrSend("stepScoped", ScopedAmounts)

NextCoin ==
  \/ CoinInit
  \/ CoinInitFixed
  \/ CoinStep
  \/ CoinStepScoped

SpecCoin == InitCoin /\ [][NextCoin]_allVars

(***************************************************************************)
(* TendermintAcc_004 (examples/cosmos/tendermint/TendermintAcc_004.qnt).   *)
(* The parameters of the module are those of two instances of four         *)
(* processes: two correct and two faulty ones, and three correct ones     *)
(* and a faulty one.  The instance is part of the state.                   *)
(***************************************************************************)
N == 4
T == 1
ValidValues == {"v0", "v1"}
InvalidValues == {"v2"}
Instances ==
  {[Corr |-> {"c1", "c2"}, Faulty |-> {"f3", "f4"}],
   [Corr |-> {"c1", "c2", "c3"}, Faulty |-> {"f4"}]}

Rounds == 0..MaxRound
NilRound == -1
RoundsOrNil == {NilRound} \cup Rounds
Values == ValidValues \cup InvalidValues
NilValue == "None"
ValuesOrNil == {NilValue} \cup Values

\* the proposer of round 0 is faulty, the proposers of the later rounds are
\* correct
Proposer ==
  [r \in Rounds |-> IF r = 0 THEN "f4" ELSE IF r % 2 = 1 THEN "c2" ELSE "c1"]

Id(v) == v
IsValid(v) == v \in ValidValues

THRESHOLD1 == T + 1
\* a seeded fault: a quorum that two sets of T + 1 processes reach with one
\* process in common
THRESHOLD2_Weak == T + 1
THRESHOLD2 == 2 * T + 1

Propose(pSrc, pRound, pProposal, pValidRound) ==
  [tag |-> "PROPOSE", src |-> pSrc, round |-> pRound,
   proposal |-> pProposal, validRound |-> pValidRound]
Prevote(pSrc, pRound, pId) ==
  [tag |-> "PREVOTE", src |-> pSrc, round |-> pRound, id |-> pId]
Precommit(pSrc, pRound, pId) ==
  [tag |-> "PRECOMMIT", src |-> pSrc, round |-> pRound, id |-> pId]

FaultyProposals(Faulty, r) ==
  {Propose(p, r, v, vr) : p \in Faulty, v \in Values, vr \in RoundsOrNil}
FaultyPrevotes(Faulty, r) ==
  {Prevote(p, r, v) : p \in Faulty, v \in Values}
FaultyPrecommits(Faulty, r) ==
  {Precommit(p, r, v) : p \in Faulty, v \in Values}

BenignRoundsInMessages(msgfun) ==
  \A r \in Rounds : \A m \in msgfun[r] : r = m.round

\* What a faulty process sends: nothing; the messages of the value v0 in
\* every round; those of v0 in round 0 and of v1 in the later rounds; those
\* of v0 and of v1 in round 0; the votes, and no proposal, of v0 and of v1
\* in every round.  Its proposals carry no valid round.
Behaviours == {"silent", "v0", "turncoat", "twofaced", "voter"}
Says(behaviour, tag, r, v, vr) ==
  /\ vr = NilRound
  /\ CASE behaviour = "silent" -> FALSE
       [] behaviour = "v0" -> v = "v0"
       [] behaviour = "turncoat" -> v = (IF r = 0 THEN "v0" ELSE "v1")
       [] behaviour = "twofaced" -> r = 0 /\ v \in {"v0", "v1"}
       [] behaviour = "voter" -> tag # "PROPOSE" /\ v \in {"v0", "v1"}

\* Init takes the messages of the faulty processes from these: in the
\* instance of two faulty processes, both change their value after round 0,
\* both send two values in round 0, or one of them does while the other
\* keeps to v0; in the instance of one faulty process, it is silent or
\* it votes for every value
FaultScenarios ==
  {<<2, [f3 |-> "turncoat", f4 |-> "turncoat"]>>,
   <<2, [f3 |-> "twofaced", f4 |-> "twofaced"]>>,
   <<2, [f3 |-> "v0", f4 |-> "twofaced"]>>,
   <<1, [f4 |-> "silent"]>>,
   <<1, [f4 |-> "voter"]>>}

TendermintInit(instance, behaviour) ==
  LET said(m, v, vr) == Says(behaviour[m.src], m.tag, m.round, v, vr)
      faultyProposals ==
        [r \in Rounds |-> {m \in FaultyProposals(instance.Faulty, r) :
                             said(m, m.proposal, m.validRound)}]
      faultyPrevotes ==
        [r \in Rounds |-> {m \in FaultyPrevotes(instance.Faulty, r) :
                             said(m, m.id, NilRound)}]
      faultyPrecommits ==
        [r \in Rounds |-> {m \in FaultyPrecommits(instance.Faulty, r) :
                             said(m, m.id, NilRound)}]
  IN  [module |-> "TendermintAcc_004",
       Corr |-> instance.Corr,
       Faulty |-> instance.Faulty,
       round |-> [p \in instance.Corr |-> 0],
       step |-> [p \in instance.Corr |-> "propose"],
       decision |-> [p \in instance.Corr |-> NilValue],
       lockedValue |-> [p \in instance.Corr |-> NilValue],
       lockedRound |-> [p \in instance.Corr |-> NilRound],
       validValue |-> [p \in instance.Corr |-> NilValue],
       validRound |-> [p \in instance.Corr |-> NilRound],
       msgsPropose |-> faultyProposals,
       msgsPrevote |-> faultyPrevotes,
       msgsPrecommit |-> faultyPrecommits,
       evidence |-> {},
       fired_action |-> "Init"]

Broadcast(msgs, newMsg) == [msgs EXCEPT ![newMsg.round] = @ \cup {newMsg}]

Senders(msgs) == {m.src : m \in msgs}

\* powerset(msgs).oneOf() with at least `threshold` senders, by the sets of
\* all the messages of a set of senders
MyEvidences(msgs, threshold) ==
  {{m \in msgs : m.src \in Q} :
   Q \in {Q \in {Senders(msgs)} : Cardinality(Q) >= threshold}}

StartRound(s, p, r) ==
  IF s.step[p] # "decided"
  THEN {[s EXCEPT !.round[p] = r, !.step[p] = "propose"]}
  ELSE {}

Fired(successors, name) == {[s EXCEPT !.fired_action = name] : s \in successors}

InsertProposal(s, p) ==
  LET r == s.round[p]
      proposal(v) == IF s.validValue[p] # NilValue THEN s.validValue[p] ELSE v
  IN  IF /\ p = Proposer[r]
         /\ s.step[p] = "propose"
         /\ \A m \in s.msgsPropose[r] : m.src # p
      THEN Fired({[s EXCEPT !.msgsPropose =
                      Broadcast(@, Propose(p, s.round[p], proposal(v), s.validRound[p]))] :
                  v \in ValidValues}, "InsertProposal")
      ELSE {}

UponProposalInPropose(s, p) ==
  LET msg(v) == Propose(Proposer[s.round[p]], s.round[p], v, NilRound)
      mid(v) == IF IsValid(v) /\ (s.lockedRound[p] = NilRound \/ s.lockedValue[p] = v)
                THEN Id(v) ELSE NilValue
  IN  Fired({[s EXCEPT !.evidence = {msg(v)} \cup @,
                       !.msgsPrevote = Broadcast(@, Prevote(p, s.round[p], mid(v))),
                       !.step[p] = "prevote"] :
             v \in {v \in Values : /\ s.step[p] = "propose"
                                   /\ msg(v) \in s.msgsPropose[s.round[p]]}},
            "UponProposalInPropose")

UponProposalInProposeAndPrevote(s, p) ==
  LET msg(v, vr) == Propose(Proposer[s.round[p]], s.round[p], v, vr)
      PV(v, vr) == {m \in s.msgsPrevote[vr] : m.id = Id(v)}
      mid(v, vr) == IF IsValid(v) /\ (s.lockedRound[p] <= vr \/ s.lockedValue[p] = v)
                    THEN Id(v) ELSE NilValue
  IN  Fired({[s EXCEPT !.evidence = PV(c[1], c[2]) \cup {msg(c[1], c[2])} \cup @,
                       !.msgsPrevote = Broadcast(@, Prevote(p, s.round[p], mid(c[1], c[2]))),
                       !.step[p] = "prevote"] :
             c \in {c \in Values \X Rounds :
                      /\ s.step[p] = "propose"
                      /\ 0 <= c[2] /\ c[2] < s.round[p]
                      /\ msg(c[1], c[2]) \in s.msgsPropose[s.round[p]]
                      /\ Cardinality(PV(c[1], c[2])) >= THRESHOLD2}},
            "UponProposalInProposeAndPrevote")

UponQuorumOfPrevotesAny(s, p) ==
  IF s.step[p] = "prevote"
  THEN Fired({[s EXCEPT !.evidence = MyEvidence \cup @,
                        !.msgsPrecommit = Broadcast(@, Precommit(p, s.round[p], NilValue)),
                        !.step[p] = "precommit"] :
              MyEvidence \in MyEvidences(s.msgsPrevote[s.round[p]], THRESHOLD2)},
             "UponQuorumOfPrevotesAny")
  ELSE {}

UponProposalInPrevoteOrCommitAndPrevote(s, p) ==
  LET msg(v, vr) == Propose(Proposer[s.round[p]], s.round[p], v, vr)
      PV(v) == {m \in s.msgsPrevote[s.round[p]] : m.id = Id(v)}
      locked(v) == IF s.step[p] = "prevote"
                   THEN [s EXCEPT !.lockedValue[p] = v,
                                  !.lockedRound[p] = s.round[p],
                                  !.msgsPrecommit =
                                     Broadcast(@, Precommit(p, s.round[p], Id(v))),
                                  !.step[p] = "precommit"]
                   ELSE s
  IN  Fired({[locked(c[1]) EXCEPT !.evidence = PV(c[1]) \cup {msg(c[1], c[2])} \cup @,
                                  !.validValue[p] = c[1],
                                  !.validRound[p] = s.round[p]] :
             c \in {c \in ValidValues \X RoundsOrNil :
                      /\ s.step[p] \in {"prevote", "precommit"}
                      /\ msg(c[1], c[2]) \in s.msgsPropose[s.round[p]]
                      /\ Cardinality(PV(c[1])) >= THRESHOLD2}},
            "UponProposalInPrevoteOrCommitAndPrevote")

UponQuorumOfPrecommitsAny(s, p) ==
  IF (s.round[p] + 1) \in Rounds
  THEN Fired(UNION {StartRound([s EXCEPT !.evidence = MyEvidence \cup @],
                               p, s.round[p] + 1) :
                    MyEvidence \in MyEvidences(s.msgsPrecommit[s.round[p]], THRESHOLD2)},
             "UponQuorumOfPrecommitsAny")
  ELSE {}

UponProposalInPrecommitNoDecision(s, p) ==
  LET msg(v, r, vr) == Propose(Proposer[r], r, v, vr)
      PV(v, r) == {m \in s.msgsPrecommit[r] : m.id = Id(v)}
  IN  Fired({[s EXCEPT !.evidence = PV(c[1], c[2]) \cup {msg(c[1], c[2], c[3])} \cup @,
                       !.decision[p] = c[1],
                       !.step[p] = "decided"] :
             c \in {c \in ValidValues \X Rounds \X RoundsOrNil :
                      /\ s.decision[p] = NilValue
                      /\ msg(c[1], c[2], c[3]) \in s.msgsPropose[c[2]]
                      /\ Cardinality(PV(c[1], c[2])) >= THRESHOLD2}},
            "UponProposalInPrecommitNoDecision")

OnTimeoutPropose(s, p) ==
  IF /\ s.step[p] = "propose"
     /\ p # Proposer[s.round[p]]
  THEN Fired({[s EXCEPT !.msgsPrevote = Broadcast(@, Prevote(p, s.round[p], NilValue)),
                        !.step[p] = "prevote"]},
             "OnTimeoutPropose")
  ELSE {}

OnQuorumOfNilPrevotes(s, p) ==
  LET PV == {m \in s.msgsPrevote[s.round[p]] : m.id = Id(NilValue)}
  IN  IF /\ s.step[p] = "prevote"
         /\ Cardinality(PV) >= THRESHOLD2
      THEN Fired({[s EXCEPT !.evidence = PV \cup @,
                            !.msgsPrecommit =
                               Broadcast(@, Precommit(p, s.round[p], Id(NilValue))),
                            !.step[p] = "precommit"]},
                 "OnQuorumOfNilPrevotes")
      ELSE {}

OnRoundCatchup(s, p) ==
  LET RoundMsgs(r) == s.msgsPropose[r] \cup s.msgsPrevote[r] \cup s.msgsPrecommit[r]
  IN  Fired(UNION {StartRound([s EXCEPT !.evidence = c[2] \cup @], p, c[1]) :
                   c \in UNION {{<<r, MyEvidence>> :
                                 MyEvidence \in MyEvidences(RoundMsgs(r), THRESHOLD1)} :
                                r \in {rr \in Rounds : rr > s.round[p]}}},
            "OnRoundCatchup")

EquivocationBy(s, p) ==
  \E m1 \in s.evidence, m2 \in s.evidence :
    /\ m1 # m2
    /\ m1.src = p
    /\ m2.src = p
    /\ m1.round = m2.round
    /\ m1.tag = m2.tag

AmnesiaBy(s, p) ==
  \E r1 \in Rounds, r2 \in Rounds :
    /\ r1 < r2
    /\ \E v1 \in ValidValues, v2 \in ValidValues :
         /\ v1 # v2
         /\ Precommit(p, r1, Id(v1)) \in s.evidence
         /\ Prevote(p, r2, Id(v2)) \in s.evidence
         /\ \A r \in {rnd \in Rounds : r1 <= rnd /\ rnd < r2} :
              LET prevotes == {m \in {m \in s.evidence : m.tag = "PREVOTE"} :
                                 m.round = r /\ m.id = Id(v2)}
              IN  Cardinality(prevotes) < THRESHOLD2

Agreement(s) ==
  \A p \in s.Corr, q \in s.Corr :
    \/ s.decision[p] = NilValue
    \/ s.decision[q] = NilValue
    \/ s.decision[p] = s.decision[q]

Accountability(s) ==
  \/ Agreement(s)
  \/ \E Detectable \in SUBSET s.Faulty :
       /\ Cardinality(Detectable) >= THRESHOLD1
       /\ \A p \in Detectable : EquivocationBy(s, p) \/ AmnesiaBy(s, p)

InitTendermint ==
  /\ Idle
  /\ \E instance \in Instances :
       /\ N = Cardinality(instance.Corr \cup instance.Faulty)
       /\ \E behaviour \in {b \in [instance.Faulty -> Behaviours] :
                               <<Cardinality(instance.Faulty), b>> \in FaultScenarios} :
            /\ state = TendermintInit(instance, behaviour)
            /\ BenignRoundsInMessages(state.msgsPropose)
            /\ BenignRoundsInMessages(state.msgsPrevote)
            /\ BenignRoundsInMessages(state.msgsPrecommit)

\* one transition of the system: an action of a correct process
Transition(successors) ==
  /\ \E successor \in successors : state' = successor
  /\ UNCHANGED Runtime

DoInsertProposal ==
  /\ state.module = "TendermintAcc_004"
  /\ \E p \in state.Corr : Transition(InsertProposal(state, p))

DoUponProposalInPropose ==
  /\ state.module = "TendermintAcc_004"
  /\ \E p \in state.Corr : Transition(UponProposalInPropose(state, p))

DoUponProposalInProposeAndPrevote ==
  /\ state.module = "TendermintAcc_004"
  /\ \E p \in state.Corr : Transition(UponProposalInProposeAndPrevote(state, p))

DoUponQuorumOfPrevotesAny ==
  /\ state.module = "TendermintAcc_004"
  /\ \E p \in state.Corr : Transition(UponQuorumOfPrevotesAny(state, p))

DoUponProposalInPrevoteOrCommitAndPrevote ==
  /\ state.module = "TendermintAcc_004"
  /\ \E p \in state.Corr : Transition(UponProposalInPrevoteOrCommitAndPrevote(state, p))

DoUponQuorumOfPrecommitsAny ==
  /\ state.module = "TendermintAcc_004"
  /\ \E p \in state.Corr : Transition(UponQuorumOfPrecommitsAny(state, p))

DoUponProposalInPrecommitNoDecision ==
  /\ state.module = "TendermintAcc_004"
  /\ \E p \in state.Corr : Transition(UponProposalInPrecommitNoDecision(state, p))

DoOnTimeoutPropose ==
  /\ state.module = "TendermintAcc_004"
  /\ \E p \in state.Corr : Transition(OnTimeoutPropose(state, p))

DoOnQuorumOfNilPrevotes ==
  /\ state.module = "TendermintAcc_004"
  /\ \E p \in state.Corr : Transition(OnQuorumOfNilPrevotes(state, p))

DoOnRoundCatchup ==
  /\ state.module = "TendermintAcc_004"
  /\ \E p \in state.Corr : Transition(OnRoundCatchup(state, p))

NextTendermint ==
  \/ DoInsertProposal
  \/ DoUponProposalInPropose
  \/ DoUponProposalInProposeAndPrevote
  \/ DoUponQuorumOfPrevotesAny
  \/ DoUponProposalInPrevoteOrCommitAndPrevote
  \/ DoUponQuorumOfPrecommitsAny
  \/ DoUponProposalInPrecommitNoDecision
  \/ DoOnTimeoutPropose
  \/ DoOnQuorumOfNilPrevotes
  \/ DoOnRoundCatchup

SpecTendermint == InitTendermint /\ [][NextTendermint]_allVars

(***************************************************************************)
(* Reading the observations of the last evaluation.                        *)
(***************************************************************************)
RECURSIVE NodeAt(_, _)
NodeAt(e, p) == IF p = <<>> THEN e ELSE NodeAt(e.args[Head(p)], Tail(p))

Done == pc # "ready"
L == run.log
\* the k-th observation is the exit of a computable compiled from `op`
IsExit(k, op) == L[k].ty = "exit" /\ NodeAt(run.e, L[k].p).op = op
\* the observation of the entry that the exit at k belongs to
EnterIdx(k) ==
  CHOOSE j \in 1..(k - 1) :
    /\ L[j].ty = "enter" /\ L[j].p = L[k].p
    /\ \A j2 \in (j + 1)..(k - 1) : ~(L[j2].ty = "enter" /\ L[j2].p = L[k].p)
\* the observations, between the entry and the exit at k, of the i-th
\* operand of that computable
ChildObs(k, i, ty) ==
  {c \in (EnterIdx(k) + 1)..(k - 1) : L[c].ty = ty /\ L[c].p = Append(L[k].p, i)}
Evaluated(k, i) == ChildObs(k, i, "enter") # {}
ChildEnter(k, i) == L[CHOOSE c \in ChildObs(k, i, "enter") : TRUE]
ChildExit(k, i) == L[CHOOSE c \in ChildObs(k, i, "exit") : TRUE]
NArgs(k) == Len(NodeAt(run.e, L[k].p).args)
\* the i-th operand was evaluated and did not return true
NotTrue(k, i) == Evaluated(k, i) /\ ~isTrue(ChildExit(k, i).res)
ReturnedTrue(k, i) == Evaluated(k, i) /\ isTrue(ChildExit(k, i).res)
\* the shifts that the chain with its exit at k made itself
ShiftsOf(k) ==
  {c \in (EnterIdx(k) + 1)..(k - 1) : L[c].ty = "shift" /\ L[c].p = L[k].p}

(***************************************************************************)
(* C1: whenever an action of actionAll { A1..Ak } returns false or fails,  *)
(* every next-state register holds, after the actionAll, the value (set or *)
(* unset) that it had before the actionAll started, whatever A1..Ai wrote. *)
(***************************************************************************)
C1_AllRestoresNextVars ==
  Done =>
    /\ \A k \in 1..Len(L) :
         (IsExit(k, "actionAll") /\ \E i \in 1..NArgs(k) : NotTrue(k, i))
           => L[k].nextVars = L[EnterIdx(k)].nextVars
    /\ (pc = "evaluated" /\ run.e.op = "actionAll"
          /\ \E i \in 1..Len(run.e.args) : NotTrue(Len(L), i))
         => nextVars = run.nextVars

\* an actionAll whose first action wrote a register and whose second
\* action failed
C1_Witness ==
  /\ pc = "evaluated"
  /\ run.e.op = "actionAll"
  /\ Len(run.e.args) = 2
  /\ ReturnedTrue(Len(L), 1)
  /\ ChildExit(Len(L), 1).nextVars # run.nextVars
  /\ NotTrue(Len(L), 2)
  /\ nextVars = run.nextVars
  /\ \E i \in VarIdx : isJust(nextVars[i])

\* the operands of the computable with its exit at k were evaluated from
\* left to right, each after the one before it had returned
LeftToRight(k) ==
  \A i, j \in 1..NArgs(k) :
    (i < j /\ Evaluated(k, j)) =>
      /\ Evaluated(k, i)
      /\ \A c \in ChildObs(k, i, "exit"), d \in ChildObs(k, j, "enter") : c < d

(***************************************************************************)
(* C2 (as claimed): actionAll { A1..Ak } evaluates its actions from left   *)
(* to right and returns true iff every Ai returns true; if an Ai returns   *)
(* false or fails, it returns the boolean false and does not evaluate      *)
(* A(i+1)..Ak.                                                             *)
(***************************************************************************)
C2_AllReturnsFalseOnFailure ==
  Done =>
    \A k \in 1..Len(L) :
      IsExit(k, "actionAll") =>
        /\ LeftToRight(k)
        /\ isTrue(L[k].res) <=> \A i \in 1..NArgs(k) : ReturnedTrue(k, i)
        /\ \A i \in 1..NArgs(k) :
             NotTrue(k, i) =>
               /\ L[k].res = just(mkBool(FALSE))
               /\ \A j \in (i + 1)..NArgs(k) : ~Evaluated(k, j)

(***************************************************************************)
(* C2 (amended): actionAll { A1..Ak } evaluates its actions from left to   *)
(* right and returns true iff every Ai returns true; if Ai is the first    *)
(* action that does not return true, A(i+1)..Ak are not evaluated and the  *)
(* actionAll returns what Ai returned: the boolean false if Ai returned    *)
(* false, and no value if Ai failed.                                       *)
(***************************************************************************)
C2_AllReturnsResultOfFailure ==
  Done =>
    \A k \in 1..Len(L) :
      IsExit(k, "actionAll") =>
        /\ LeftToRight(k)
        /\ isTrue(L[k].res) <=> \A i \in 1..NArgs(k) : ReturnedTrue(k, i)
        /\ \A i \in 1..NArgs(k) :
             NotTrue(k, i) =>
               /\ L[k].res = ChildExit(k, i).res
               /\ \A j \in (i + 1)..NArgs(k) : ~Evaluated(k, j)

\* an actionAll of two actions whose first action failed: no value is
\* returned and the second action is not evaluated
C2_Witness ==
  /\ pc = "evaluated"
  /\ run.e.op = "actionAll"
  /\ Len(run.e.args) = 2
  /\ Evaluated(Len(L), 1)
  /\ isNone(ChildExit(Len(L), 1).res)
  /\ ~Evaluated(Len(L), 2)
  /\ isNone(run.res)

(***************************************************************************)
(* C3: actionAny { A1..Ak } evaluates every Ai from the next-state         *)
(* registers as they were before the actionAny and returns true iff at     *)
(* least one Ai returns true, a failing Ai counting as false; when no Ai   *)
(* returns true it returns false and every next-state register has the     *)
(* value it had before the actionAny.                                      *)
(***************************************************************************)
C3_AnyTrueIffSomeBranch ==
  Done =>
    /\ \A k \in 1..Len(L) :
         IsExit(k, "actionAny") =>
           /\ \A i \in 1..NArgs(k) :
                /\ Evaluated(k, i)
                /\ ChildEnter(k, i).nextVars = L[EnterIdx(k)].nextVars
           /\ L[k].res = just(mkBool(\E i \in 1..NArgs(k) : ReturnedTrue(k, i)))
           /\ ~isTrue(L[k].res) => L[k].nextVars = L[EnterIdx(k)].nextVars
    /\ (pc = "evaluated" /\ run.e.op = "actionAny") =>
         /\ run.res = L[Len(L)].res
         /\ ~isTrue(run.res) => nextVars = run.nextVars

\* an actionAny without a successful action: one action failed and one
\* had written a register before it returned false
C3_Witness ==
  /\ pc = "evaluated"
  /\ run.e.op = "actionAny"
  /\ run.res = just(mkBool(FALSE))
  /\ \E i \in 1..Len(run.e.args) : isNone(ChildExit(Len(L), i).res)
  /\ \E i \in 1..Len(run.e.args) : ChildExit(Len(L), i).nextVars # run.nextVars
  /\ nextVars = run.nextVars

(***************************************************************************)
(* C4 (as claimed): when actionAny { A1..Ak } returns true, the committed  *)
(* next-state registers are exactly those that one single successful Ai    *)
(* produces when it is evaluated alone from the state before the           *)
(* actionAny.                                                              *)
(***************************************************************************)
\* the i-th action of the evaluated expression, evaluated alone from the
\* state before the evaluation
Alone(i, seed) ==
  Eval(run.e.args[i], <<i>>, Machine(run.vars, run.nextVars, run.errs, seed))

CommitsAlone(i) ==
  \E seed \in Seeds(run.e.args[i]) :
    /\ isTrue(Alone(i, seed).res)
    /\ Alone(i, seed).nextVars = nextVars

C4_AnyCommitsBranchAlone ==
  (pc = "evaluated" /\ run.e.op = "actionAny" /\ isTrue(run.res)) =>
    \E i \in 1..Len(run.e.args) : CommitsAlone(i)

(***************************************************************************)
(* C4 (amended): when actionAny { A1..Ak } returns true, the committed     *)
(* next-state registers are exactly those that one single successful Ai    *)
(* left, Ai having started from the next-state registers as they were      *)
(* before the actionAny; they are those that Ai produces when evaluated    *)
(* alone from the state before the actionAny provided that no action       *)
(* before Ai shifted the registers (a then chain among A1..A(i-1) leaves   *)
(* its shifted current-state registers to the actions after it).           *)
(***************************************************************************)
NoShiftBefore(c) == \A d \in 1..(c - 1) : L[d].ty # "shift"

C4_AnyCommitsOneBranch ==
  Done =>
    /\ \A k \in 1..Len(L) :
         (IsExit(k, "actionAny") /\ isTrue(L[k].res)) =>
           \E i \in 1..NArgs(k) :
             /\ ReturnedTrue(k, i)
             /\ ChildEnter(k, i).nextVars = L[EnterIdx(k)].nextVars
             /\ L[k].nextVars = ChildExit(k, i).nextVars
    /\ (pc = "evaluated" /\ run.e.op = "actionAny" /\ isTrue(run.res)) =>
         \E i \in 1..Len(run.e.args) :
           /\ ReturnedTrue(Len(L), i)
           /\ nextVars = ChildExit(Len(L), i).nextVars
           /\ (\A c \in ChildObs(Len(L), i, "enter") : NoShiftBefore(c))
                => CommitsAlone(i)

\* any { all { n' = 1, false }, all { n' = 2 } }: the first action
\* wrote 1 and failed, and the next-state n is 2
C4_Witness ==
  /\ pc = "evaluated"
  /\ run.e = AnyScenario
  /\ run.res = just(mkBool(TRUE))
  /\ nextVars[1] = just(mkInt(2))
  /\ nextVars[2] = run.nextVars[2]
  /\ CommitsAlone(2)

(***************************************************************************)
(* C5: in then(A1..Ak), for every i < k such that A1..Ai returned true,    *)
(* A(i+1) is entered with every current-state register holding what Ai     *)
(* left in the next-state register and with every next-state register      *)
(* unset; the chain shifts once after each of these Ai and never after     *)
(* the last action, so a fully successful chain shifts k-1 times.          *)
(***************************************************************************)
C5_ThenShiftsBetweenActions ==
  Done =>
    \A k \in 1..Len(L) :
      IsExit(k, "then") =>
        /\ \A i \in 1..(NArgs(k) - 1) :
             (\A j \in 1..i : ReturnedTrue(k, j)) =>
               /\ Evaluated(k, i + 1)
               /\ ChildEnter(k, i + 1).vars = ChildExit(k, i).nextVars
               /\ ChildEnter(k, i + 1).nextVars = Unset
        /\ Cardinality(ShiftsOf(k)) =
             Cardinality({i \in 1..(NArgs(k) - 1) : \A j \in 1..i : ReturnedTrue(k, j)})
        /\ \A c \in ShiftsOf(k) : \E i \in 1..NArgs(k) : c + 1 \in ChildObs(k, i, "enter")
        /\ (NArgs(k) > 0 /\ isTrue(L[k].res)) =>
             Cardinality(ShiftsOf(k)) = NArgs(k) - 1

\* a successful chain of two actions: one shift, which changed the
\* current-state registers
C5_Witness ==
  /\ pc = "evaluated"
  /\ run.e.op = "then"
  /\ Len(run.e.args) = 2
  /\ isTrue(run.res)
  /\ Cardinality(ShiftsOf(Len(L))) = 1
  /\ ChildEnter(Len(L), 2).vars # run.vars
  /\ ChildEnter(Len(L), 2).vars = ChildExit(Len(L), 1).nextVars
  /\ nextVars # Unset

(***************************************************************************)
(* C6: in the counters module, the run                                     *)
(* Init.then(OnPositive).then(OnPositive).then(OnDivByThree).then(OnEven)  *)
(* returns true and the values written to n are 1, 2, 3, 6, 3 in turn.     *)
(***************************************************************************)
\* the successful assignments to the i-th variable, in the order of time
IsWrite(ev, i) ==
  /\ ev.ty = "exit"
  /\ NodeAt(run.e, ev.p).op = "assign"
  /\ idxOf(NodeAt(run.e, ev.p).args[1].x) = i
  /\ isTrue(ev.res)
WritesTo(i) ==
  LET evs == SelectSeq(L, LAMBDA ev : IsWrite(ev, i))
  IN  [j \in 1..Len(evs) |-> toInt(evs[j].nextVars[i][1])]

C6_Run2Trace ==
  (Done /\ run.e = run2) =>
    /\ run.res = just(mkBool(TRUE))
    /\ WritesTo(1) = <<1, 2, 3, 6, 3>>
    /\ pc = "evaluated" => (vars[1] = just(mkInt(6)) /\ nextVars[1] = just(mkInt(3)))

C6_Witness ==
  /\ pc = "evaluated"
  /\ run.e = run2
  /\ run.vars[1] = just(mkInt(3))
  /\ WritesTo(1) = <<1, 2, 3, 6, 3>>

(***************************************************************************)
(* C7: assign(x, e) with e evaluating to v returns true, sets the          *)
(* next-state register of x to v and leaves the current-state register of  *)
(* x and all the other registers as they were; from n = 3,                 *)
(* all { n' = 5, n == n } returns true with current n = 3 and next n = 5,  *)
(* and a shift then makes current n = 5.                                   *)
(***************************************************************************)
TargetOf(k) == idxOf(NodeAt(run.e, L[k].p).args[1].x)

C7_AssignWritesNextOnly ==
  /\ Done =>
       \A k \in 1..Len(L) :
         (IsExit(k, "assign") /\ isJust(ChildExit(k, 2).res)) =>
           /\ L[k].res = just(mkBool(TRUE))
           /\ L[k].nextVars[TargetOf(k)] = ChildExit(k, 2).res
           /\ L[k].vars = ChildExit(k, 2).vars
           /\ \A j \in VarIdx \ {TargetOf(k)} :
                L[k].nextVars[j] = ChildExit(k, 2).nextVars[j]
  /\ (Done /\ run.e.op = "assign" /\ isJust(ChildExit(Len(L), 2).res)) =>
       /\ pc = "evaluated" =>
            /\ vars = run.vars
            /\ nextVars[TargetOf(Len(L))] = ChildExit(Len(L), 2).res
       /\ pc = "shifted" => vars[TargetOf(Len(L))] = ChildExit(Len(L), 2).res
  /\ (Done /\ run.e = AssignScenario /\ run.vars[1] = just(mkInt(3))) =>
       /\ run.res = just(mkBool(TRUE))
       /\ pc = "evaluated" => (vars[1] = just(mkInt(3)) /\ nextVars[1] = just(mkInt(5)))
       /\ pc = "shifted" => vars[1] = just(mkInt(5))

\* all { n' = 5, n == n } was evaluated from n = 3 and the registers
\* were shifted
C7_Witness ==
  /\ pc = "shifted"
  /\ run.e = AssignScenario
  /\ run.vars[1] = just(mkInt(3))
  /\ vars[1] = just(mkInt(5))

(***************************************************************************)
(* C8: a snapshot of either register bank that is recovered, after any     *)
(* assignments, shifts and recovers in between, returns every register of  *)
(* the bank, set or unset, to its value at the time of the snapshot, and   *)
(* the writes to the registers in between leave the held snapshot as it    *)
(* was taken.                                                              *)
(***************************************************************************)
C8_SnapshotRoundTrip ==
  /\ held.taken => (held.vars = held.atVars /\ held.nextVars = held.atNextVars)
  /\ held.last = "recoverVars" => vars = held.atVars
  /\ held.last = "recoverNextVars" => nextVars = held.atNextVars

\* a recover of the current-state bank that unset one register that had
\* been set since the snapshot and put back the value of another
C8_Witness ==
  /\ held.last = "recoverVars"
  /\ \E i \in VarIdx :
       isNone(held.atVars[i]) /\ isJust(held.before[i]) /\ isNone(vars[i])
  /\ \E i \in VarIdx :
       /\ isJust(held.atVars[i])
       /\ held.before[i] # held.atVars[i]
       /\ vars[i] = held.atVars[i]

(***************************************************************************)
(* C9: `and` stops at the first operand that is false and returns false,   *)
(* `or` stops at the first operand that is true and returns true; the      *)
(* operands after it are never evaluated, so that an operand after it      *)
(* that would raise a runtime error changes neither the result nor the     *)
(* log of runtime errors.                                                  *)
(***************************************************************************)
StopsAt(k, i, stopOn) ==
  (Evaluated(k, i) /\ ChildExit(k, i).res = just(mkBool(stopOn))) =>
    /\ L[k].res = just(mkBool(stopOn))
    /\ \A j \in (i + 1)..NArgs(k) : ~Evaluated(k, j)

\* the runtime errors that the last evaluation recorded
NewErrors == SubSeq(runtimeErrors, Len(run.errs) + 1, Len(runtimeErrors))

C9_AndOrShortCircuit ==
  Done =>
    /\ \A k \in 1..Len(L) :
         /\ IsExit(k, "and") =>
              (LeftToRight(k) /\ \A i \in 1..NArgs(k) : StopsAt(k, i, FALSE))
         /\ IsExit(k, "or") =>
              (LeftToRight(k) /\ \A i \in 1..NArgs(k) : StopsAt(k, i, TRUE))
    /\ (run.e.op \in {"and", "or"}) =>
         \A i \in 1..Len(run.e.args) :
           (/\ Evaluated(Len(L), i)
            /\ ChildExit(Len(L), i).res = just(mkBool(run.e.op = "or"))) =>
             \A n \in 1..Len(NewErrors) : NewErrors[n].refs[1] <= i

\* and { false, 1 / 0 == 1 } or or { true, 1 / 0 == 1 }: the second
\* operand was not evaluated and no runtime error was recorded
C9_Witness ==
  /\ pc = "evaluated"
  /\ run.e.op \in {"and", "or"}
  /\ Len(run.e.args) = 2
  /\ run.e.args[2] = Diverge
  /\ ChildExit(Len(L), 1).res = just(mkBool(run.e.op = "or"))
  /\ ~Evaluated(Len(L), 2)
  /\ run.res = just(mkBool(run.e.op = "or"))
  /\ runtimeErrors = <<>>

(***************************************************************************)
(* C10: in and/or an operand that fails is treated as false: `and` with a  *)
(* failing operand returns false, `or` goes on with the operands after a   *)
(* failing one, so that or { fail, true } returns true, and neither `and`  *)
(* nor `or` ever yields no value.                                          *)
(***************************************************************************)
Fails(k, i) == Evaluated(k, i) /\ isNone(ChildExit(k, i).res)

C10_AndOrCoerceFailure ==
  Done =>
    /\ \A k \in 1..Len(L) :
         /\ IsExit(k, "and") =>
              /\ isJust(L[k].res)
              /\ L[k].res = just(mkBool(\A i \in 1..NArgs(k) : ReturnedTrue(k, i)))
              /\ \A i \in 1..NArgs(k) : Fails(k, i) => L[k].res = just(mkBool(FALSE))
         /\ IsExit(k, "or") =>
              /\ isJust(L[k].res)
              /\ L[k].res = just(mkBool(\E i \in 1..NArgs(k) : ReturnedTrue(k, i)))
              /\ \A i \in 1..(NArgs(k) - 1) : Fails(k, i) => Evaluated(k, i + 1)
    /\ run.e = App("or", <<Diverge, Tt>>) => run.res = just(mkBool(TRUE))

\* or { 1 / 0 == 1, true }: the first operand failed, with a runtime
\* error, and the result is true
C10_Witness ==
  /\ pc = "evaluated"
  /\ run.e = App("or", <<Diverge, Tt>>)
  /\ Fails(Len(L), 1)
  /\ Len(NewErrors) = 1
  /\ run.res = just(mkBool(TRUE))

(***************************************************************************)
(* What was observed of the last simulation.                               *)
(***************************************************************************)
Tested == pc = "tested"
O == sim.obs
ObsOf(ty) == {k \in 1..Len(O) : O[k].ty = ty}
Verdict == sim.res
\* the runs that were executed
Runs == {O[k].runNo : k \in 1..Len(O)}
\* the observation k is the last one of its run but for the recovery
EndsRun(k) ==
  /\ k < Len(O)
  /\ O[k + 1].ty = "recover"
  /\ O[k + 1].runNo = O[k].runNo

(***************************************************************************)
(* C11 (as claimed): _test returns true iff in no executed run inv         *)
(* evaluated to false in the post-shift state after init or after a        *)
(* successful step, and it returns false as soon as inv is false in one    *)
(* such state.                                                             *)
(***************************************************************************)
InvAfterShift ==
  \A k \in ObsOf("inv") :
    /\ k > 2
    /\ O[k - 1].ty = "shift"
    /\ O[k - 2].ty \in {"init", "step"}
    /\ isTrue(O[k - 2].res)
    /\ O[k].vars = O[k - 1].vars

C11_TestTrueIffInvNeverFalse ==
  Tested =>
    /\ InvAfterShift
    /\ Verdict = just(mkBool(\A k \in ObsOf("inv") : O[k].res # just(mkBool(FALSE))))
    /\ \A k \in ObsOf("inv") : O[k].res = just(mkBool(FALSE)) => EndsRun(k)

(***************************************************************************)
(* C11 (amended): _test returns true iff in every executed run inv         *)
(* evaluated to true in the post-shift state after init and after every    *)
(* successful step; it returns false as soon as inv is false or fails      *)
(* (yields no value) in one such state.                                    *)
(***************************************************************************)
C11_TestTrueIffInvAlwaysTrue ==
  Tested =>
    /\ InvAfterShift
    /\ Verdict = just(mkBool(\A k \in ObsOf("inv") : isTrue(O[k].res)))
    /\ \A k \in ObsOf("inv") :
         ~isTrue(O[k].res) => (EndsRun(k) /\ O[k].runNo + 1 = Cardinality(Runs))

\* inv was true after init and false after the first step, and _test
\* returned false
C11_Witness ==
  /\ Tested
  /\ Verdict = just(mkBool(FALSE))
  /\ \E k \in ObsOf("inv") : isTrue(O[k].res)
  /\ \E k \in ObsOf("inv") :
       /\ O[k].res = just(mkBool(FALSE))
       /\ O[k - 2].ty = "step"

(***************************************************************************)
(* C12: a run whose init returns false or fails, or whose step returns     *)
(* false or fails at some step, is dropped there: nothing more of the run  *)
(* is evaluated and no error is found in it; when every run is dropped in  *)
(* this way, _test returns true.                                           *)
(***************************************************************************)
Dropped(k) == O[k].ty \in {"init", "step"} /\ ~isTrue(O[k].res)

C12_DisabledRunIsDropped ==
  Tested =>
    /\ \A k \in 1..Len(O) :
         Dropped(k) =>
           /\ EndsRun(k)
           /\ \A j \in ObsOf("inv") : O[j].runNo = O[k].runNo => isTrue(O[j].res)
           /\ (O[k].runNo + 1 < sim.nruns) => (O[k].runNo + 1) \in Runs
    /\ (\A r \in 0..(sim.nruns - 1) : \E k \in 1..Len(O) : O[k].runNo = r /\ Dropped(k))
         => Verdict = just(mkBool(TRUE))

\* two runs: in both of them init was taken, inv held and the step failed
C12_Witness ==
  /\ Tested
  /\ sim.nruns = 2
  /\ Verdict = just(mkBool(TRUE))
  /\ \A r \in 0..1 :
       \E k \in ObsOf("step") : O[k].runNo = r /\ isNone(O[k].res)
  /\ \A k \in ObsOf("init") : isTrue(O[k].res)
  /\ \A k \in ObsOf("inv") : isTrue(O[k].res)
  /\ Len(runtimeErrors) > Len(sim.errs)

(***************************************************************************)
(* C13: after _test has returned, true or false, every current-state and   *)
(* every next-state register holds the value, or no value, that it held    *)
(* before _test was invoked; of the registers, only _lastTrace is written. *)
(***************************************************************************)
C13_TestRestoresRegisters ==
  Tested =>
    /\ vars = sim.vars
    /\ nextVars = sim.nextVars
    /\ isJust(lastTrace)
    /\ \A k \in ObsOf("recover") :
         O[k].vars = sim.vars /\ O[k].nextVars = sim.nextVars

\* _test returned false; before it n was set in both banks and m in
\* none, and the failing run had set m and changed n
C13_Witness ==
  /\ Tested
  /\ Verdict = just(mkBool(FALSE))
  /\ isJust(sim.vars[1]) /\ isJust(sim.nextVars[1])
  /\ isNone(sim.vars[2]) /\ isNone(sim.nextVars[2])
  /\ \E k \in ObsOf("inv") :
       /\ ~isTrue(O[k].res)
       /\ isJust(O[k].vars[2])
       /\ O[k].vars[1] # sim.vars[1]
  /\ vars = sim.vars

(***************************************************************************)
(* C14 (as claimed): after _test, _lastTrace is a list of records, one     *)
(* for every state of the last executed run, and every record has one      *)
(* field per declared state variable, holding the post-shift value of the  *)
(* variable, also when init or step does not assign every variable.        *)
(***************************************************************************)
LastRun == Cardinality(Runs) - 1
\* the shifts of the last executed run
LastShifts == {k \in ObsOf("shift") : O[k].runNo = LastRun}
Trace == lastTrace[1]
\* the records of Trace are those that the shifts of the last run pushed
OneRecordPerState ==
  /\ \A k \in LastShifts : Len(O[k].trace) <= Len(Trace)
  /\ \A j \in 1..Len(Trace) : \E k \in LastShifts : Len(O[k].trace) = j

C14_RecordHasEveryVariable ==
  Tested =>
    /\ isJust(lastTrace)
    /\ OneRecordPerState
    /\ \A j \in 1..Len(Trace) :
         /\ Len(Trace[j]) = Len(VarName)
         /\ \A i \in VarIdx : \E f \in 1..Len(Trace[j]) : Trace[j][f][1] = VarName[i]

(***************************************************************************)
(* C14 (amended): after _test, _lastTrace is a list of records, one for    *)
(* every state of the last executed run; a record has one field for every  *)
(* state variable that holds a value in the post-shift state, with that    *)
(* value, and no field for a variable that holds none there (a variable    *)
(* that the init or the step of that state did not assign).                *)
(***************************************************************************)
RecordOf(rec, regs) ==
  /\ Len(rec) = Cardinality({i \in VarIdx : isJust(regs[i])})
  /\ \A i \in VarIdx :
       isJust(regs[i]) => \E f \in 1..Len(rec) : rec[f] = <<VarName[i], regs[i][1]>>

C14_RecordHasEverySetVariable ==
  Tested =>
    /\ isJust(lastTrace)
    /\ OneRecordPerState
    /\ \A k \in LastShifts : RecordOf(Trace[Len(O[k].trace)], O[k].vars)

\* a trace of two states, of which the first has n and m and the second,
\* after a step that assigned n only, has n alone
C14_Witness ==
  /\ Tested
  /\ Len(Trace) >= 2
  /\ Len(Trace[1]) = 2
  /\ Trace[2] = <<<<"n", mkInt(2)>>>>

(***************************************************************************)
(* C15: _test executes the runs 0, 1, ... in order, nruns of them unless   *)
(* an error is found, and stops at the first run in which an error is      *)
(* found: no init, step or inv is evaluated after that, and _lastTrace is  *)
(* the trace of that run, whose last record is the state in which inv did  *)
(* not hold.                                                               *)
(***************************************************************************)
RunsInOrder ==
  /\ Runs = 0..LastRun
  /\ \A k \in 1..(Len(O) - 1) :
       \/ O[k + 1].runNo = O[k].runNo /\ O[k].ty # "recover"
       \/ O[k + 1].runNo = O[k].runNo + 1 /\ O[k].ty = "recover" /\ O[k + 1].ty = "init"
  /\ Len(O) > 0 => (O[1].ty = "init" /\ O[Len(O)].ty = "recover")

C15_StopsAtFirstFailingRun ==
  Tested =>
    /\ RunsInOrder
    /\ Cardinality(Runs) <= sim.nruns
    /\ Verdict = just(mkBool(TRUE)) => Cardinality(Runs) = sim.nruns
    /\ \A k \in ObsOf("inv") :
         ~isTrue(O[k].res) =>
           /\ Verdict = just(mkBool(FALSE))
           /\ k + 1 = Len(O)
           /\ lastTrace = just(O[k].trace)
           /\ RecordOf(Trace[Len(Trace)], O[k].vars)

\* the first run passed with a step taken, and the error was found in the
\* second run, after its step
C15_Witness ==
  /\ Tested
  /\ Verdict = just(mkBool(FALSE))
  /\ LastRun = 1
  /\ \E k \in ObsOf("step") : O[k].runNo = 0 /\ isTrue(O[k].res)
  /\ ~isTrue(O[Len(O) - 1].res)
  /\ O[Len(O) - 1].ty = "inv"
  /\ Len(Trace) = 2
  /\ sim.nruns > 1

(***************************************************************************)
(* C16: determinism of _test: two invocations of                           *)
(* _test(nruns, nsteps, init, step, inv) from the same register state      *)
(* produce the same trace and the same verdict.  The compiler draws from   *)
(* Math.random() and neither takes nor exposes a seed: the registers and   *)
(* the arguments are all that an invocation can fix, and the second        *)
(* invocation may draw anything that Math.random() can return.             *)
(***************************************************************************)
Again(seed) ==
  doRun(sim.nruns, sim.nsteps, sim.init, sim.next, sim.inv,
        Machine(sim.vars, sim.nextVars, sim.errs, seed))

C16_RepeatedTestIsIdentical ==
  Tested =>
    \A seed \in TestSeeds(sim.next) :
      /\ Again(seed).st.res = Verdict
      /\ Again(seed).trace = Trace

(***************************************************************************)
(* C17: a reference to a name compiles to the computable that is           *)
(* registered for the name under the first of the kinds shadow, val, var,  *)
(* arg, callable that has the name: in the body of a lambda, a name that   *)
(* is a state variable and a parameter of the lambda is the state          *)
(* variable, and a name that is a parameter and a user-defined operator    *)
(* is the parameter.                                                       *)
(***************************************************************************)
Has(kind, name) == \E e \in context : e.key = <<kind, name>>
Registered(kind, name) == (CHOOSE e \in context : e.key = <<kind, name>>).value
\* the computable that the last node pushed
Pushed == compStack[Len(compStack)]
Referred == visit.last.op = "enterName"
Hides(k1, k2) ==
  \A name \in RefNames :
    (Referred /\ visit.last.name = name /\ Has(k1, name) /\ Has(k2, name)
     /\ \A k \in {"shadow", "val", "var", "arg", "callable"} \ {k1, k2} : ~Has(k, name))
      => (compStack = Append(visit.last.before, Registered(k1, name)))

C17_NameResolvesByKindPriority ==
  /\ Hides("shadow", "val") /\ Hides("shadow", "var") /\ Hides("shadow", "arg")
  /\ Hides("shadow", "callable") /\ Hides("val", "var") /\ Hides("val", "arg")
  /\ Hides("val", "callable") /\ Hides("var", "arg") /\ Hides("var", "callable")
  /\ Hides("arg", "callable")
  /\ \A name \in RefNames :
       (Referred /\ visit.last.name = name) =>
         /\ (\A k \in {"shadow", "val", "var", "arg", "callable"} : ~Has(k, name))
              => (compStack = visit.last.before /\ compileErrors # <<>>)
         /\ (Has("var", name) /\ Has("arg", name) /\ ~Has("shadow", name)
             /\ ~Has("val", name)) => Pushed.kind = "var"
         /\ (Has("arg", name) /\ ~Has("var", name) /\ ~Has("shadow", name)
             /\ ~Has("val", name)) => Pushed = mkRegister("arg", name)

\* in the body of x => ..., with the state variable x declared, the name x
\* was compiled to the register of the state variable
C17_Witness ==
  /\ Referred
  /\ visit.last.name = "x"
  /\ visit.open # <<>>
  /\ Has("var", "x")
  /\ Has("arg", "x")
  /\ Pushed = mkRegister("var", "x")

(***************************************************************************)
(* C18: the visitor records one error for each reference that it does not  *)
(* resolve and none for the others.  A name or an operator application     *)
(* without a definition that passes the scope filter gives a value error,  *)
(* a type name that is not in the table of type definitions gives a type   *)
(* error, and the error carries the name, the node id of the reference,    *)
(* the module that is being visited and the definition entered last.       *)
(***************************************************************************)
IsValueRef(v) == v.kind \in {"name", "app"}
ResolvedRef(v) ==
  LET t == resolver.tables[v.moduleName]
  IN IF IsValueRef(v)
       THEN \E i \in 1..Len(t.valueDefinitions) :
              /\ t.valueDefinitions[i].identifier = v.name
              /\ \/ falsy(t.valueDefinitions[i].scope)
                 \/ includes(scopesForId(resolver.scopeTree, v.id),
                             t.valueDefinitions[i].scope[1])
       ELSE \E i \in 1..Len(t.typeDefinitions) :
              t.typeDefinitions[i].identifier = v.name
ErrorOf(v) ==
  [kind |-> IF IsValueRef(v) THEN "value" ELSE "type", name |-> v.name,
   definitionName |-> v.definitionName, moduleName |-> v.moduleName,
   reference |-> v.id]
RECURSIVE ErrorsFrom(_, _)
ErrorsFrom(visited, i) ==
  IF i > Len(visited)
    THEN <<>>
    ELSE (IF ResolvedRef(visited[i]) THEN <<>> ELSE <<ErrorOf(visited[i])>>)
         \o ErrorsFrom(visited, i + 1)
\* the errors of the references visited so far, in the order of the visit
Errors == ErrorsFrom(resolver.visited, 1)

Reported(v) ==
  \E k \in 1..Len(resolver.results) :
    resolver.results[k].errors[1].reference = v.id
Visible(d, v) ==
  /\ d.identifier = v.name
  /\ \/ d.scope = Unscoped
     \/ includes(scopesForId(resolver.scopeTree, v.id), d.scope[1])

C19_ResolvesIffDefinitionInScope ==
  \A i \in 1..Len(resolver.visited) :
     LET v == resolver.visited[i]
         defs == resolver.tables[v.moduleName].valueDefinitions
     IN IsValueRef(v) =>
          (~Reported(v) <=> \E j \in 1..Len(defs) : Visible(defs[j], v))

(***************************************************************************)
(* C20: the result of resolveNames is ok exactly when no reference of the  *)
(* module was left unresolved; otherwise it is one error result that       *)
(* lists the errors of all the unresolved references in the order of the   *)
(* visit.                                                                  *)
(***************************************************************************)
C20_AllErrorsAreAggregated ==
  resolver.phase = "resolved" =>
    /\ resolver.result.kind = "ok" <=> Errors = <<>>
    /\ Errors # <<>> => resolver.result = [kind |-> "error", errors |-> Errors]
    /\ resolver.result.kind \in {"ok", "error"}

\* two references were left unresolved, a name and then a type, and the
\* result lists both in this order
C20_Witness ==
  /\ resolver.phase = "resolved"
  /\ resolver.result.kind = "error"
  /\ Len(resolver.result.errors) = 2
  /\ resolver.result.errors[1].kind = "value"
  /\ resolver.result.errors[1].reference = 0
  /\ resolver.result.errors[2].kind = "type"
  /\ resolver.result.errors[2].reference = 1

(***************************************************************************)
(* C21: the definitionName of an error is the name of the module-level     *)
(* definition that contains the unresolved reference, also when the        *)
(* definition of a let-in was entered and left before the reference.       *)
(***************************************************************************)
C21_ErrorNamesModuleLevelDefinition ==
  \A i \in 1..Len(resolver.visited) :
    \A k \in 1..Len(resolver.results) :
      LET v == resolver.visited[i]
          e == resolver.results[k].errors[1]
      IN (e.reference = v.id /\ v.inDef # "") => e.definitionName = v.inDef

(***************************************************************************)
(* C23: an application of a user-defined operator to a number of           *)
(* arguments that is not the number of its parameters records a compile    *)
(* error at the application and leaves the operands of the enclosing       *)
(* expressions on the stack; the application of a name that is no          *)
(* operator records the error 'Called unknown operator'.                   *)
(***************************************************************************)
Applied == visit.last.op = "exitApp"
\* the operator that the application at the last node looked up, if any
AppliedOperator == contextGet(context, visit.last.name, <<"callable", "arg">>)
IsPrefix(s, t) == Len(s) <= Len(t) /\ SubSeq(t, 1, Len(s)) = s
ErrorAt(id) ==
  \E k \in 1..Len(compileErrors) : compileErrors[k].refs = id

C23_ArityIsChecked ==
  Applied =>
    IF AppliedOperator = <<>> \/ AppliedOperator[1].kind # "callable"
    THEN \E k \in 1..Len(compileErrors) :
           /\ compileErrors[k].refs = <<visit.n>>
           /\ compileErrors[k].explanation = "Called unknown operator"
    ELSE visit.last.nargs # Len(AppliedOperator[1].registers) =>
           /\ ErrorAt(<<visit.n>>)
           /\ IsPrefix(visit.last.before, compStack)

(***************************************************************************)
(* The evaluation of one application of a built-in operator.               *)
(***************************************************************************)
Applies(ops) == Done /\ run.e.op \in ops
\* the i-th operand, when it is an integer literal
Lit(i) == run.e.args[i].v
\* the list that the variable m held when the evaluation started
ListOfM == toList(run.vars[2][1])
Threw == \E k \in 1..Len(L) : L[k].ty = "throw"
OneErrorAt(id) == Len(NewErrors) = 1 /\ NewErrors[1].refs = id

(***************************************************************************)
(* C22: an evaluation is never left by an exception: a failure yields no   *)
(* value and a runtime error.  The log of runtime errors only grows.       *)
(***************************************************************************)
C22_EvaluationNeverThrows ==
  Done =>
    /\ ~Threw
    /\ IsPrefix(run.errs, runtimeErrors)

(***************************************************************************)
(* C24: exists is true as soon as the lambda is true of an element, and    *)
(* forall is false as soon as the lambda is false of an element: the       *)
(* lambda is not evaluated on the elements after it, and what it does on   *)
(* them does not change the result.                                        *)
(***************************************************************************)
\* the evaluations of the body of the lambda, which is the operand 2 of the
\* lambda, which is the operand 2 of the application
BodyExits == {k \in 1..Len(L) : L[k].ty = "exit" /\ L[k].p = <<2, 2>>}
Decides(k) ==
  /\ isJust(L[k].res)
  /\ toBool(L[k].res[1]) = (run.e.op = "exists")

C24_QuantifiersShortCircuit ==
  Applies({"exists", "forall"}) =>
    \A k \in BodyExits :
       Decides(k) =>
         /\ run.res = just(mkBool(run.e.op = "exists"))
         /\ \A later \in BodyExits : later <= k

(***************************************************************************)
(* C25: slice(l, s, e) is the list of the elements l[s..e-1] whenever      *)
(* 0 <= s <= e <= size(l); otherwise it yields no value and records a      *)
(* runtime error.                                                          *)
(***************************************************************************)
C25_SliceWithinBounds ==
  Applies({"slice"}) =>
    IF 0 <= Lit(2) /\ Lit(2) <= Lit(3) /\ Lit(3) <= Len(ListOfM)
    THEN /\ run.res = just(mkList(SubSeq(ListOfM, Lit(2) + 1, Lit(3))))
         /\ NewErrors = <<>>
    ELSE /\ run.res = none
         /\ OneErrorAt(<<>>)

(***************************************************************************)
(* C26: idiv and imod by 0, ipow with a negative exponent and ipow(0, 0)   *)
(* yield no value and record a runtime error at the application; for all   *)
(* other integers the three operators return an integer.                   *)
(***************************************************************************)
Undefined ==
  \/ run.e.op \in {"idiv", "imod"} /\ Lit(2) = 0
  \/ run.e.op = "ipow" /\ (Lit(2) < 0 \/ (Lit(1) = 0 /\ Lit(2) = 0))

C26_ArithmeticFailures ==
  Applies({"idiv", "imod", "ipow"}) =>
    IF Undefined
    THEN run.res = none /\ OneErrorAt(<<>>)
    ELSE /\ isJust(run.res)
         /\ run.res[1].k = "int"
         /\ NewErrors = <<>>

\* -2 % 0 was evaluated
C26_Witness ==
  /\ Applies({"imod"})
  /\ Lit(1) = -2
  /\ Lit(2) = 0
  /\ run.res = none
  /\ OneErrorAt(<<>>)

(***************************************************************************)
(* C27: nth(replaceAt(l, i, v), i) = v, nth(replaceAt(l, i, v), j) =       *)
(* nth(l, j) for j # i, and l itself is unchanged; with an index out of    *)
(* range nth and replaceAt yield no value and record an out-of-bounds      *)
(* runtime error.                                                          *)
(***************************************************************************)
InRange(i) == 0 <= i /\ i < Len(ListOfM)
OutOfBoundsAt(id) ==
  /\ OneErrorAt(id)
  /\ NewErrors[1].explanation \in {"Out of bounds, nth", "Out of bounds, replaceAt"}
Replaced(i) == [ListOfM EXCEPT ![i + 1] = mkInt(7)]
OnReplaced == run.e.args[1].op = "replaceAt"
ReplacedIndex == run.e.args[1].args[2].v

C27_NthOfReplaceAt ==
  /\ Applies({"replaceAt"}) =>
       /\ vars[2] = run.vars[2]
       /\ IF InRange(Lit(2))
          THEN run.res = just(mkList(Replaced(Lit(2)))) /\ NewErrors = <<>>
          ELSE run.res = none /\ OutOfBoundsAt(<<>>)
  /\ Applies({"nth"}) /\ ~OnReplaced =>
       IF InRange(Lit(2))
       THEN run.res = just(ListOfM[Lit(2) + 1]) /\ NewErrors = <<>>
       ELSE run.res = none /\ OutOfBoundsAt(<<>>)
  /\ Applies({"nth"}) /\ OnReplaced =>
       /\ vars[2] = run.vars[2]
       /\ IF ~InRange(ReplacedIndex) THEN run.res = none /\ OutOfBoundsAt(<<1>>)
          ELSE IF ~InRange(Lit(2)) THEN run.res = none /\ OutOfBoundsAt(<<>>)
          ELSE /\ NewErrors = <<>>
               /\ run.res = just(IF Lit(2) = ReplacedIndex THEN mkInt(7)
                                 ELSE ListOfM[Lit(2) + 1])

\* nth(replaceAt(m, 1, 7), 1) was evaluated with m = List(1, 2)
C27_Witness ==
  /\ Applies({"nth"})
  /\ OnReplaced
  /\ ReplacedIndex = 1
  /\ Lit(2) = 1
  /\ ListOfM = <<mkInt(1), mkInt(2)>>
  /\ run.res = just(mkInt(7))
  /\ vars[2] = just(mkList(<<mkInt(1), mkInt(2)>>))

(***************************************************************************)
(* C28: fold and foldl compute f(...f(f(a, e1), e2)..., ek), giving f the  *)
(* accumulator and then the element; foldr goes through the reversed       *)
(* sequence and gives f the element and then the accumulator.  On the      *)
(* empty list the result is a; if f fails on an element there is no value. *)
(***************************************************************************)
\* what the lambda of the fold is of a first and a second argument
LambdaOf(body, a, b) ==
  CASE body.op = "isub" -> <<a - b>>
    [] body.op = "idiv" /\ body.args[1].op = "param" ->
         IF b = 2 THEN <<>> ELSE <<bigDiv(a, b - 2)>>
    [] OTHER -> IF b = 0 THEN <<>> ELSE <<bigDiv(a - 2, b)>>

RECURSIVE Folded(_, _, _, _)
Folded(body, acc, elems, elemFirst) ==
  IF acc = <<>> \/ elems = <<>> THEN acc
  ELSE Folded(body,
              IF elemFirst THEN LambdaOf(body, Head(elems).n, acc[1])
              ELSE LambdaOf(body, acc[1], Head(elems).n),
              Tail(elems), elemFirst)

FoldBody == run.e.args[3].args[3]
Expected ==
  Folded(FoldBody, <<Lit(2)>>,
         IF run.e.op = "foldr" THEN reverse(ListOfM) ELSE ListOfM,
         run.e.op = "foldr")

C28_FoldOrderAndArguments ==
  Applies({"fold", "foldl", "foldr"}) =>
    run.res = IF Expected = <<>> THEN none ELSE just(mkInt(Expected[1]))

\* List(1, 2).foldr(5, (a, b) => a - b) was evaluated: 1 - (2 - 5) = 4
C28_Witness ==
  /\ Applies({"foldr"})
  /\ FoldBody.op = "isub"
  /\ ListOfM = <<mkInt(1), mkInt(2)>>
  /\ Lit(2) = 5
  /\ run.res = just(mkInt(4))

(***************************************************************************)
(* C29: A.repeated(n) with a count n >= 0 evaluates n and then behaves     *)
(* like then(A, ..., A) with n copies of A: the same result and the same   *)
(* current-state and next-state registers, with n - 1 shifts when every    *)
(* copy returns true.  For n = 0 it returns true and changes no register.  *)
(***************************************************************************)
RECURSIVE Times(_, _)
Times(action, n) == IF n = 0 THEN <<>> ELSE <<action>> \o Times(action, n - 1)

Repeats(n) ==
  /\ Applies({"repeated"})
  /\ run.e.args[2].op = "int"
  /\ Lit(2) = n
\* what then(A, ..., A) with n copies of A does when it is evaluated from
\* the registers that the evaluation started from
Chain(n) ==
  Eval(App("then", Times(run.e.args[1], n)), <<>>,
       Machine(run.vars, run.nextVars, run.errs, run.seed))
OwnShifts == {c \in 1..Len(L) : L[c].ty = "shift" /\ L[c].p = <<>>}

C29_RepeatedIsThenOfCopies ==
  \A n \in 0..(MaxSteps + 1) :
     Repeats(n) =>
       /\ run.res = Chain(n).res
       /\ vars = Chain(n).vars
       /\ nextVars = Chain(n).nextVars
       /\ runtimeErrors = Chain(n).runtimeErrors
       /\ isTrue(run.res) /\ n >= 1 => Cardinality(OwnShifts) = n - 1
       /\ n = 0 =>
            /\ isTrue(run.res)
            /\ vars = run.vars
            /\ nextVars = run.nextVars

\* (n' = n + 1).repeated(2) was evaluated with n = 3: n is 4 and n' is 5
C29_Witness ==
  /\ Repeats(2)
  /\ run.e.args[1] = IncN
  /\ run.vars[1] = just(mkInt(3))
  /\ isTrue(run.res)
  /\ vars[1] = just(mkInt(4))
  /\ nextVars[1] = just(mkInt(5))
  /\ Cardinality(OwnShifts) = 1

(***************************************************************************)
(* C30: ite(c, t, e) evaluates exactly one arm: t when c is true, and e    *)
(* otherwise.  The other arm is not evaluated: it assigns nothing and      *)
(* records no runtime error.  When c yields no value, no arm is evaluated  *)
(* and the result is no value.                                             *)
(***************************************************************************)
Entered(i) == \E c \in 1..Len(L) : L[c].ty = "enter" /\ L[c].p = <<i>>
ExitOf(i) == L[CHOOSE c \in 1..Len(L) : L[c].ty = "exit" /\ L[c].p = <<i>>]
ErrorsUnder(i) ==
  {k \in 1..Len(NewErrors) : IsPrefix(<<i>>, NewErrors[k].refs)}
\* the whole effect of the ite is that of the condition and of the arm i
OnlyArm(i, other) ==
  /\ Entered(i)
  /\ ~Entered(other)
  /\ run.res = ExitOf(i).res
  /\ nextVars = ExitOf(i).nextVars
  /\ ErrorsUnder(other) = {}
  /\ \A x \in 1..Len(VarName) :
       nextVars[x] # ExitOf(1).nextVars[x] =>
         \E a \in 1..Len(L) :
            /\ L[a].ty = "exit"
            /\ IsPrefix(<<i>>, L[a].p)
            /\ NodeAt(run.e, L[a].p).op = "assign"

C30_IteEvaluatesOneArm ==
  Applies({"ite"}) =>
    /\ Entered(1)
    /\ IF isNone(ExitOf(1).res)
       THEN /\ ~Entered(2)
            /\ ~Entered(3)
            /\ run.res = none
            /\ nextVars = ExitOf(1).nextVars
       ELSE IF ExitOf(1).res = just(mkBool(TRUE))
            THEN OnlyArm(2, 3)
            ELSE OnlyArm(3, 2)

\* ite(true, m' = 1, n' = 1) was evaluated: m is assigned and n is not
C30_Witness ==
  /\ Applies({"ite"})
  /\ run.e.args = <<Tt, SetM1, SetN1>>
  /\ isTrue(run.res)
  /\ nextVars[2] = just(mkInt(1))
  /\ nextVars[1] = none

(***************************************************************************)
(* C31: the two registers of a variable start unset, and so does           *)
(* _lastTrace, which stays unset until a _test has completed.  Reading x   *)
(* or next(x) while its register is unset yields no value and records a    *)
(* runtime error at the id of the declaration of x; a register that is set *)
(* yields its value and records nothing.                                   *)
(***************************************************************************)
WasRead == pc = "read"
ReadOf(x) == WasRead /\ run.e = NameE(x)
ReadOfNext(x) == WasRead /\ run.e = App("next", <<NameE(x)>>)
ReadGives(register, id) ==
  IF isNone(register)
  THEN run.res = none /\ OneErrorAt(id)
  ELSE run.res = register /\ NewErrors = <<>>

UnsetReadsAreErrors ==
  /\ sim = NoTest => lastTrace = none
  /\ sim # NoTest => isJust(lastTrace)
  /\ \A i \in VarIdx :
       /\ ReadOf(VarName[i]) => ReadGives(run.vars[i], declId(i))
       /\ ReadOfNext(VarName[i]) => ReadGives(run.nextVars[i], declId(i))
  /\ ReadOf("_lastTrace") => ReadGives(lastTrace, <<0>>)
  /\ WasRead => vars = run.vars /\ nextVars = run.nextVars

C31_RegistersStartUnset ==
  /\ vars = Unset /\ nextVars = Unset /\ lastTrace = none
  /\ []UnsetReadsAreErrors

\* m was read while it was unset and n was set
C31_Witness ==
  /\ ReadOf("m")
  /\ run.vars[2] = none
  /\ isJust(run.vars[1])
  /\ run.res = none
  /\ OneErrorAt(declId(2))

(***************************************************************************)
(* C35: when then(A1..Ak) fails at Ai with i > 1, the next-state registers *)
(* are those from before the chain, and the current-state registers are    *)
(* not put back: the chain has shifted i - 1 times, Ai started from the    *)
(* registers that A(i-1) had assigned, and the current-state registers are *)
(* left as Ai left them.                                                   *)
(***************************************************************************)
Top == Len(L)
FailsAt(i) ==
  /\ Applies({"then"})
  /\ i > 1
  /\ NotTrue(Top, i)

C35_FailedThenKeepsShifts ==
  \A i \in 2..MaxArgs :
     FailsAt(i) =>
       /\ nextVars = run.nextVars
       /\ Cardinality(ShiftsOf(Top)) = i - 1
       /\ ChildEnter(Top, i).vars = ChildExit(Top, i - 1).nextVars
       /\ vars = ChildExit(Top, i).vars

\* a chain failed at its second action and left n as the first action had
\* assigned it, which is not the value from before the chain
C35_Witness ==
  /\ FailsAt(2)
  /\ run.e.args[1] = SetN1
  /\ isJust(run.vars[1])
  /\ vars[1] = just(mkInt(1))
  /\ vars # run.vars
  /\ nextVars = run.nextVars

(***************************************************************************)
(* C36: a shift copies the whole bank of next-state registers: after it    *)
(* every next-state register is unset, a variable that was assigned has    *)
(* the assigned value as its current value, and a variable that was not    *)
(* assigned is unset in the current state, whatever it held before.        *)
(***************************************************************************)
ShiftCopiesAll ==
  held'.last = "shift" =>
    /\ nextVars' = Unset
    /\ \A i \in VarIdx :
         /\ isJust(nextVars[i]) => vars'[i] = nextVars[i]
         /\ isNone(nextVars[i]) => isNone(vars'[i])

C36_ShiftCopiesUnsetSlots == [][ShiftCopiesAll]_allVars

\* after a shift m is unset, although it held a value when the snapshot
\* was taken, and n holds a value
C36_Witness ==
  /\ held.last = "shift"
  /\ held.taken
  /\ isJust(held.atVars[2])
  /\ isNone(vars[2])
  /\ isJust(vars[1])
  /\ nextVars = Unset

(***************************************************************************)
(* C37 (as claimed): an evaluation of inv that yields no value, because of *)
(* a runtime error or because invName is the name of no callable, is       *)
(* treated like false: the runs stop and _test returns false.  When        *)
(* initName or stepName is the name of no callable, _test returns true.    *)
(***************************************************************************)
InvWithoutValueIsError ==
  \A k \in ObsOf("inv") :
     isNone(O[k].res) =>
       /\ Verdict = just(mkBool(FALSE))
       /\ EndsRun(k)
       /\ O[k].runNo + 1 = Cardinality(Runs)

C37_MissingNameMakesTestTrue ==
  Tested =>
    /\ InvWithoutValueIsError
    /\ (sim.init = "Missing" \/ sim.next = "Missing") => Verdict = just(mkBool(TRUE))

(***************************************************************************)
(* C37 (amended): an evaluation of inv that yields no value is treated     *)
(* like false: the runs stop and _test returns false.  When initName is    *)
(* the name of no callable, every run is dropped at its init, inv is never *)
(* evaluated and _test returns true.  When stepName is the name of no      *)
(* callable, no step is taken: inv is evaluated in the state after init    *)
(* only, and _test returns true iff inv was true there in every run.       *)
(***************************************************************************)
C37_MissingInitDropsRuns ==
  Tested =>
    /\ InvWithoutValueIsError
    /\ sim.init = "Missing" =>
         /\ Verdict = just(mkBool(TRUE))
         /\ ObsOf("inv") = {}
         /\ \A r \in 0..(sim.nruns - 1) :
              \E k \in ObsOf("init") : O[k].runNo = r /\ isNone(O[k].res)
         /\ runtimeErrors = sim.errs
    /\ sim.next = "Missing" =>
         /\ \A k \in ObsOf("step") : isNone(O[k].res)
         /\ \A k \in ObsOf("inv") : O[k - 2].ty = "init"
         /\ Verdict = just(mkBool(\A k \in ObsOf("inv") : isTrue(O[k].res)))

\* invName is the name of no callable: the first of two runs took its
\* init, found no value for inv, and _test returned false
C37_Witness ==
  /\ Tested
  /\ sim.inv = "Missing"
  /\ sim.init = "Init"
  /\ sim.nruns = 2
  /\ Cardinality(Runs) = 1
  /\ \E k \in ObsOf("inv") : isNone(O[k].res)
  /\ Verdict = just(mkBool(FALSE))
  /\ runtimeErrors = sim.errs

(***************************************************************************)
(* C38: _test(nruns, nsteps, ...) executes at most nruns runs of at most   *)
(* nsteps invocations of the step each.  The trace in _lastTrace has at    *)
(* most nsteps + 1 states; each of them but possibly the last satisfies    *)
(* inv, and all of them do when the result is true.  The trace is empty    *)
(* when nruns = 0 or when the init of the last run was not enabled.        *)
(***************************************************************************)
\* the registers that the record of a state of the trace was made from
RegistersOf(record) ==
  LET Field(i) == {j \in 1..Len(record) : record[j][1] = VarName[i]}
      Value(i) == IF Field(i) = {} THEN none
                  ELSE just(record[CHOOSE j \in Field(i) : TRUE][2])
  IN  <<Value(1), Value(2)>>
SatisfiesInv(j) ==
  isTrue(Eval(callable(sim.inv), <<5>>,
              Machine(RegistersOf(Trace[j]), Unset, <<>>, sim.seed)).res)
InitOf(r) == O[CHOOSE k \in ObsOf("init") : O[k].runNo = r]

C38_TestIsBounded ==
  Tested =>
    /\ Runs \subseteq 0..(sim.nruns - 1)
    /\ \A r \in Runs :
         /\ Cardinality({k \in ObsOf("init") : O[k].runNo = r}) = 1
         /\ Cardinality({k \in ObsOf("step") : O[k].runNo = r}) <= sim.nsteps
    /\ Len(Trace) <= sim.nsteps + 1
    /\ \A j \in 1..(Len(Trace) - 1) : SatisfiesInv(j)
    /\ Verdict = just(mkBool(TRUE)) => \A j \in 1..Len(Trace) : SatisfiesInv(j)
    /\ sim.nruns = 0 => Trace = <<>>
    /\ (Runs # {} /\ ~isTrue(InitOf(LastRun).res)) => Trace = <<>>

\* _test(nruns, 2, "Init", "OnPositive", "NSmall") returned false with a
\* trace of two states, of which the first satisfies inv and the last
\* does not
C38_Witness ==
  /\ Tested
  /\ sim.nsteps = 2
  /\ sim.inv = "NSmall"
  /\ Verdict = just(mkBool(FALSE))
  /\ Len(Trace) = 2
  /\ SatisfiesInv(1)
  /\ ~SatisfiesInv(2)

(***************************************************************************)
(* C40: when the right-hand side e of assign(x, e) yields no value, the    *)
(* assignment yields no value, and the next-state register of x and every  *)
(* other register hold what they held before the assignment.               *)
(***************************************************************************)
C40_FailedAssignWritesNothing ==
  Done =>
    \A k \in 1..Len(L) :
       (IsExit(k, "assign") /\ isNone(ChildExit(k, 2).res)) =>
         /\ L[k].res = none
         /\ L[k].vars = L[EnterIdx(k)].vars
         /\ L[k].nextVars = L[EnterIdx(k)].nextVars

\* n' = 1 / 0 was evaluated while the next-state register of n held 3
C40_Witness ==
  /\ pc = "evaluated"
  /\ run.e = Assign("n", App("idiv", <<IntE(1), IntE(0)>>))
  /\ run.nextVars[1] = just(mkInt(3))
  /\ run.res = none
  /\ nextVars = run.nextVars
  /\ vars = run.vars
  /\ Len(NewErrors) = 1

(***************************************************************************)
(* C39: the callable of a lambda that is compiled without an error before  *)
(* it holds one register for each of its parameters, and no compile error  *)
(* is recorded when the lambda is left; while a lambda is open, each of    *)
(* its parameters is bound to an arg register in the context, also after   *)
(* an inner lambda with a parameter of the same name has been compiled.    *)
(***************************************************************************)
LeftLambda ==
  /\ visit.last.op = "exitLambda"
  /\ visit.last.errors = 0
  /\ visit.last.before # <<>>
OpenParams == {visit.open[j][i] : j \in 1..Len(visit.open), i \in 1..1}

C39_LambdaHoldsItsParameters ==
  /\ LeftLambda =>
       /\ compileErrors = <<>>
       /\ Pushed.kind = "callable"
       /\ Len(Pushed.registers) = Len(visit.last.closed)
       /\ \A i \in 1..Len(visit.last.closed) :
            Pushed.registers[i] = mkRegister("arg", visit.last.closed[i])
  /\ compileErrors = <<>> => \A param \in OpenParams : Has("arg", param)

(***************************************************************************)
(* C32: in SimpleAuction, the chain                                        *)
(* fixInit.then(bid("alice", 5)).then(bid("bob", 6)).then(withdraw("alice")) *)
(* succeeds: every action of it is enabled in turn, and it leaves alice    *)
(* with a balance of 21 and bob as the highest bidder.                     *)
(***************************************************************************)
BidWithdrawChain ==
  <<Act("fixInit", "", "", 0), Act("bid", "alice", "", 5),
    Act("bid", "bob", "", 6), Act("withdraw", "alice", "", 0)>>

C32_BidWithdrawTest ==
  (state.module = "SimpleAuction" /\ state.chain = BidWithdrawChain) =>
    /\ state.ok
    /\ state.evmState.balances["alice"] = 21
    /\ state.auctionState.highestBidder = "bob"

\* the chain was run: the contract holds the bid of bob on top of its 21
\* tokens and owes alice nothing
C32_Witness ==
  /\ state.module = "SimpleAuction"
  /\ state.chain = BidWithdrawChain
  /\ state.ok
  /\ state.evmState.balances["alice"] = 21
  /\ state.evmState.balances["bob"] = 15
  /\ state.evmState.balances["hanSol"] = 27
  /\ state.auctionState.pendingReturns["alice"] = 0
  /\ state.auctionState.highestBid = 6

(***************************************************************************)
(* C33: in Coin, balancesRangeInv holds in every state that init and the   *)
(* steps of step and stepScoped reach, the steps with a negative amount    *)
(* and with the amount MAX_UINT included, and no step after init changes   *)
(* the minter.                                                             *)
(***************************************************************************)
CoinRan == state.module = "Coin" /\ state.steps > 0

MinterKept == CoinRan => state'.minter = state.minter

C33_BalancesStayInRange ==
  /\ [](CoinRan => balancesRangeInv(state))
  /\ [][MinterKept]_allVars

\* a step of stepScoped with a negative amount was taken on a balance that
\* an amount of MAX_UINT had made
C33_Witness ==
  /\ CoinRan
  /\ state.last.op = "stepScoped"
  /\ state.last.value = -10
  /\ \E a \in ADDR : state.balances[a] = MAX_UINT - 10
  /\ balancesRangeInv(state)

(***************************************************************************)
(* C34: in TendermintAcc_004, Accountability holds in every state that     *)
(* Next reaches from Init: either no two correct processes have decided    *)
(* different values, or the evidence shows equivocation or amnesia for     *)
(* each of at least T + 1 faulty processes.  With at most T faulty         *)
(* processes and N > 3 * T, Agreement holds in every such state.           *)
(***************************************************************************)
Tendermint == state.module = "TendermintAcc_004"

====
